---- MODULE Spec2Model ----
(***************************************************************************)
(* Model of the tourism query system: the Nominatim place verifier         *)
(* (api_clients.py), the structured orchestrator (offline_main.py), the    *)
(* free-text orchestrator (agents.py) and the entry points that drive      *)
(* them (app.py, offline_main.main, main.py, the test scripts).            *)
(*                                                                         *)
(* Text is modelled as sequences: a place name, a query or a keyword is a  *)
(* sequence of one-character strings, so that lower(), strip(), split()    *)
(* and the substring test `in` are computed character by character; a      *)
(* rendered response is a sequence whose elements are the characters of    *)
(* the place name and the literal fragments of the f-string templates.     *)
(***************************************************************************)
EXTENDS Naturals, Sequences, FiniteSets, TLC

(***************************************************************************)
(* Bounds of the model.                                                    *)
(***************************************************************************)
\* Longest place name typed by a caller of the verifier (SpecVerify).
MaxQueryLen == 3

\* Longest name the geocoder resolves to (SpecVerify).
MaxNameLen == 2

\* Longest element list the Overpass provider answers with.
MaxElements == 2

\* Most fragments a text given to determine_intent is made of (SpecIntent).
MaxFragments == 2

\* Longest element list, and largest limit, get_tourist_attractions is tried
\* with on its own (SpecAttractions).
MaxListed == 3

MaxLimit == 3

(***************************************************************************)
(* Python str operations.                                                  *)
(***************************************************************************)
UpperLetters ==
    <<"A", "B", "C", "D", "E", "F", "G", "H", "I", "J", "K", "L", "M",
      "N", "O", "P", "Q", "R", "S", "T", "U", "V", "W", "X", "Y", "Z">>

LowerLetters ==
    <<"a", "b", "c", "d", "e", "f", "g", "h", "i", "j", "k", "l", "m",
      "n", "o", "p", "q", "r", "s", "t", "u", "v", "w", "x", "y", "z">>

LowerChar(c) ==
    IF \E i \in DOMAIN UpperLetters : UpperLetters[i] = c
    THEN LowerLetters[CHOOSE i \in DOMAIN UpperLetters : UpperLetters[i] = c]
    ELSE c

UpperChar(c) ==
    IF \E i \in DOMAIN LowerLetters : LowerLetters[i] = c
    THEN UpperLetters[CHOOSE i \in DOMAIN LowerLetters : LowerLetters[i] = c]
    ELSE c

\* str.lower()
StrLower(s) == [i \in 1..Len(s) |-> LowerChar(s[i])]

\* str.upper()
StrUpper(s) == [i \in 1..Len(s) |-> UpperChar(s[i])]

\* The characters str.strip() and str.split() treat as whitespace.
IsSpace(c) == c \in {" ", "\t", "\n", "\r"}

RECURSIVE LStrip(_)
LStrip(s) ==
    IF s # <<>> /\ IsSpace(Head(s)) THEN LStrip(Tail(s)) ELSE s

RECURSIVE RStrip(_)
RStrip(s) ==
    IF s # <<>> /\ IsSpace(s[Len(s)]) THEN RStrip(SubSeq(s, 1, Len(s) - 1)) ELSE s

\* str.strip()
StrStrip(s) == RStrip(LStrip(s))

\* needle in hay
StrIn(needle, hay) ==
    \E i \in 0..Len(hay) :
        /\ i + Len(needle) <= Len(hay)
        /\ SubSeq(hay, i + 1, i + Len(needle)) = needle

\* str.split() without arguments: the maximal runs of non-whitespace, in order.
RECURSIVE SplitWords(_, _)
SplitWords(s, cur) ==
    IF s = <<>>
    THEN IF cur = <<>> THEN <<>> ELSE <<cur>>
    ELSE IF IsSpace(Head(s))
         THEN IF cur = <<>>
              THEN SplitWords(Tail(s), <<>>)
              ELSE <<cur>> \o SplitWords(Tail(s), <<>>)
         ELSE SplitWords(Tail(s), Append(cur, Head(s)))

StrSplit(s) == SplitWords(s, <<>>)

\* Optional[...]: None, or a value.
None == [some |-> FALSE]

Some(v) == [some |-> TRUE, val |-> v]

(***************************************************************************)
(* NominatimClient (api_clients.py).                                       *)
(*                                                                         *)
(* A geocoder answer g is what requests.get produced: g.kind is "ok" (a    *)
(* non-empty JSON list, g the fields of its first element), "empty" (an    *)
(* empty list), "timeout", "http_error" (raise_for_status raises) or       *)
(* "malformed" (a field that makes the parsing raise).  Importance is in   *)
(* hundredths.                                                             *)
(***************************************************************************)
ImportanceThreshold == 30

MinorPlaceTypes ==
    { <<"h", "a", "m", "l", "e", "t">>,
      <<"v", "i", "l", "l", "a", "g", "e">>,
      <<"l", "o", "c", "a", "l", "i", "t", "y">> }

UnknownType == <<"u", "n", "k", "n", "o", "w", "n">>

NotExistsMessage == <<"I don't know this place exists.">>

\* MatchConfidence with the resolved name compared as given, not lower-cased.
MatchConfidenceCaseSensitive(name, place_name) ==
    LET search_term == StrStrip(StrLower(place_name))
        words == StrSplit(search_term)
    IN  IF name = search_term \/ StrIn(search_term, name)
        THEN "high"
        ELSE IF \E i \in DOMAIN words : StrIn(words[i], name)
             THEN "medium"
             ELSE "low"

\* The confidence tier of lines 97-109.
MatchConfidence(name, place_name) ==
    LET found_name == StrLower(name)
        search_term == StrStrip(StrLower(place_name))
        words == StrSplit(search_term)
    IN  IF found_name = search_term \/ StrIn(search_term, found_name)
        THEN "high"
        ELSE IF \E i \in DOMAIN words : StrIn(words[i], found_name)
             THEN "medium"
             ELSE "low"

\* get_place_details: None unless the request succeeded with a match.
GetPlaceDetails(place_name, g) ==
    IF g.kind # "ok"
    THEN None
    ELSE LET name == IF g.hasName THEN g.name ELSE place_name
         IN  Some([name |-> name,
                   display_name |-> IF g.hasDisplay THEN g.display_name ELSE place_name,
                   type |-> IF g.hasType THEN g.type ELSE UnknownType,
                   lat |-> g.lat,
                   lon |-> g.lon,
                   importance |-> IF g.hasImportance THEN g.importance ELSE 0,
                   match_confidence |-> MatchConfidence(name, place_name)])

\* StrictReject with the threshold itself rejected (<= in place of <).
StrictRejectInclusive(d) ==
    \/ d.importance <= ImportanceThreshold /\ StrLower(d.type) \in MinorPlaceTypes
    \/ d.match_confidence = "low"

\* The strict filter of lines 138-146: TRUE when the candidate is rejected.
StrictReject(d) ==
    \/ d.importance < ImportanceThreshold /\ StrLower(d.type) \in MinorPlaceTypes
    \/ d.match_confidence = "low"

\* verify_place_exists applying the strict filter whatever the flag.
VerifyPlaceExistsAlwaysStrict(place_name, strict, g) ==
    LET place_details == GetPlaceDetails(place_name, g)
    IN  IF ~place_details.some
        THEN [exists |-> FALSE, details |-> None, message |-> NotExistsMessage]
        ELSE IF StrictReject(place_details.val)
             THEN [exists |-> FALSE, details |-> place_details,
                   message |-> NotExistsMessage]
             ELSE [exists |-> TRUE, details |-> place_details,
                   message |-> <<"Found ">> \o place_details.val.display_name]

\* verify_place_exists with the no-match test made only in strict mode.
VerifyPlaceExistsLenientMiss(place_name, strict, g) ==
    LET place_details == GetPlaceDetails(place_name, g)
    IN  IF ~place_details.some
        THEN [exists |-> ~strict, details |-> None,
              message |-> IF strict THEN NotExistsMessage ELSE <<"Found ">> \o place_name]
        ELSE IF strict /\ StrictReject(place_details.val)
             THEN [exists |-> FALSE, details |-> place_details,
                   message |-> NotExistsMessage]
             ELSE [exists |-> TRUE, details |-> place_details,
                   message |-> <<"Found ">> \o place_details.val.display_name]

\* verify_place_exists telling the caller which candidate it rejected.
VerifyPlaceExistsNamingCandidate(place_name, strict, g) ==
    LET place_details == GetPlaceDetails(place_name, g)
    IN  IF ~place_details.some
        THEN [exists |-> FALSE, details |-> None, message |-> NotExistsMessage]
        ELSE IF strict /\ StrictReject(place_details.val)
             THEN [exists |-> FALSE, details |-> place_details,
                   message |-> <<"Did you mean ">> \o place_details.val.display_name]
             ELSE [exists |-> TRUE, details |-> place_details,
                   message |-> <<"Found ">> \o place_details.val.display_name]

\* verify_place_exists with the flag read the wrong way round: the filter
\* runs when strict is false.
VerifyPlaceExistsFilterWhenLenient(place_name, strict, g) ==
    LET place_details == GetPlaceDetails(place_name, g)
    IN  IF ~place_details.some
        THEN [exists |-> FALSE, details |-> None, message |-> NotExistsMessage]
        ELSE IF ~strict /\ StrictReject(place_details.val)
             THEN [exists |-> FALSE, details |-> place_details,
                   message |-> NotExistsMessage]
             ELSE [exists |-> TRUE, details |-> place_details,
                   message |-> <<"Found ">> \o place_details.val.display_name]

\* verify_place_exists: the triple (exists, place_details, message).
VerifyPlaceExists(place_name, strict, g) ==
    LET place_details == GetPlaceDetails(place_name, g)
    IN  IF ~place_details.some
        THEN [exists |-> FALSE, details |-> None, message |-> NotExistsMessage]
        ELSE IF strict /\ StrictReject(place_details.val)
             THEN [exists |-> FALSE, details |-> place_details,
                   message |-> NotExistsMessage]
             ELSE [exists |-> TRUE, details |-> place_details,
                   message |-> <<"Found ">> \o place_details.val.display_name]

\* get_coordinates: None unless the request succeeded with a match.
GetCoordinates(g) ==
    IF g.kind = "ok" THEN Some(<<g.lat, g.lon>>) ELSE None

(***************************************************************************)
(* OpenMeteoClient and OverpassClient (api_clients.py).                    *)
(*                                                                         *)
(* A weather answer w has w.kind "ok" (JSON with "current" and             *)
(* "current_units"), "no_current", "timeout", "http_error" or "malformed"  *)
(* (a missing key that makes the parsing raise).  A places answer p has    *)
(* p.kind "ok", "timeout", "http_error" or "malformed" (an element that    *)
(* makes the loop raise) and p.elements, the "elements" list; an element's *)
(* tags are a record in which a key that is absent holds "".               *)
(***************************************************************************)
DefaultLimit == 5

\* get_weather: the weather dictionary, or None.
GetWeather(w) ==
    IF w.kind = "ok"
    THEN Some([temperature |-> w.temperature,
               precipitation_probability |-> w.precipitation_probability,
               unit |-> w.unit])
    ELSE None

\* `not tags`: the element carries no tag at all.
NoTags(e) ==
    /\ e.tourism = ""
    /\ e.name = ""
    /\ e.name_en = ""
    /\ e.name_en_gb = ""
    /\ ~e.other

\* tags.get("name") or tags.get("name:en") or tags.get("name:en-GB")
ElementName(e) ==
    IF e.name # "" THEN e.name
    ELSE IF e.name_en # "" THEN e.name_en
    ELSE e.name_en_gb

\* CollectPlaces without the seen_names test.
RECURSIVE CollectPlacesNoDedup(_, _, _, _)
CollectPlacesNoDedup(elements, places, seen_names, limit) ==
    IF elements = <<>>
    THEN places
    ELSE LET element == Head(elements)
             name == ElementName(element)
         IN  IF NoTags(element) \/ element.tourism = ""
             THEN CollectPlacesNoDedup(Tail(elements), places, seen_names, limit)
             ELSE IF name # ""
                  THEN LET added == Append(places, [name |-> name, type |-> element.tourism])
                       IN  IF Len(added) >= limit
                           THEN added
                           ELSE CollectPlacesNoDedup(Tail(elements), added,
                                                     seen_names \cup {name}, limit)
                  ELSE CollectPlacesNoDedup(Tail(elements), places, seen_names, limit)

\* The loop of lines 248-267, from the elements not yet visited.
RECURSIVE CollectPlaces(_, _, _, _)
CollectPlaces(elements, places, seen_names, limit) ==
    IF elements = <<>>
    THEN places
    ELSE LET element == Head(elements)
             name == ElementName(element)
         IN  IF NoTags(element) \/ element.tourism = ""
             THEN CollectPlaces(Tail(elements), places, seen_names, limit)
             ELSE IF name # "" /\ name \notin seen_names
                  THEN LET added == Append(places, [name |-> name, type |-> element.tourism])
                       IN  IF Len(added) >= limit
                           THEN added
                           ELSE CollectPlaces(Tail(elements), added,
                                              seen_names \cup {name}, limit)
                  ELSE CollectPlaces(Tail(elements), places, seen_names, limit)

\* places[:limit]
Truncate(places, limit) ==
    SubSeq(places, 1, IF Len(places) < limit THEN Len(places) ELSE limit)

\* get_tourist_attractions: the attraction list; empty on any failure.
GetTouristAttractions(p, limit) ==
    IF p.kind = "ok"
    THEN Truncate(CollectPlaces(p.elements, <<>>, {}, limit), limit)
    ELSE <<>>

(***************************************************************************)
(* Rendering: the f-string templates of the facet getters and of the two   *)
(* process_query methods.                                                  *)
(***************************************************************************)
\* sep.join(parts) for a sequence of texts.
RECURSIVE Join(_, _)
Join(sep, parts) ==
    IF parts = <<>> THEN <<>>
    ELSE IF Len(parts) = 1 THEN parts[1]
    ELSE parts[1] \o sep \o Join(sep, Tail(parts))

WeatherSentence(place_name, weather_data) ==
    <<"In ">> \o place_name
        \o <<" it's currently ", weather_data.temperature, weather_data.unit,
             " with a chance of ", weather_data.precipitation_probability,
             "% to rain.">>

PlacesLeadIn(place_name) ==
    <<"In ">> \o place_name \o <<" these are the places you can go, - - - - -">>

NoAttractionsLine == <<"(No tourist attractions found in the database)">>

\* PlacesRendering without the line that says nothing was found.
PlacesRenderingLeadInOnly(place_name, attractions) ==
    IF attractions = <<>>
    THEN PlacesLeadIn(place_name)
    ELSE PlacesLeadIn(place_name) \o <<"\n">>
            \o Join(<<"\n">>, [i \in 1..Len(attractions) |-> <<attractions[i].name>>])

PlacesRendering(place_name, attractions) ==
    IF attractions = <<>>
    THEN PlacesLeadIn(place_name) \o <<"\n">> \o NoAttractionsLine
    ELSE PlacesLeadIn(place_name) \o <<"\n">>
            \o Join(<<"\n">>, [i \in 1..Len(attractions) |-> <<attractions[i].name>>])

ConnectivePrefix == <<"And these are the places you can go: - - - - -">>

\* "\n" in text
HasNewline(text) == \E i \in DOMAIN text : text[i] = "\n"

\* text.split("\n", 1)[1]: what follows the first newline.
AfterFirstLine(text) ==
    LET first == CHOOSE i \in DOMAIN text :
                     /\ text[i] = "\n"
                     /\ \A j \in 1..(i - 1) : text[j] # "\n"
    IN  SubSeq(text, first + 1, Len(text))

\* PlacesAfterWeather keeping the whole Places text, lead-in included.
PlacesAfterWeatherWhole(places_text) ==
    <<"And ">> \o places_text

\* The Places piece appended after a Weather piece (offline_main.py 65-69,
\* agents.py 255-259).
PlacesAfterWeather(places_text) ==
    IF HasNewline(places_text)
    THEN ConnectivePrefix \o <<"\n">> \o AfterFirstLine(places_text)
    ELSE <<"And ">> \o places_text

WeatherFailure(place_name) ==
    <<"Could not retrieve weather information for ">> \o place_name \o <<".">>

PlacesFailure(place_name) ==
    <<"Could not retrieve tourist attractions for ">> \o place_name \o <<".">>

OfflineGeneric(place_name) ==
    <<"Could not retrieve information for ">> \o place_name \o <<". Please try again.">>

AgentGeneric(place_name) ==
    <<"I found ">> \o place_name \o <<", but couldn't retrieve information. Please try again.">>

\* The truth value Python gives an Optional[str].
Truthy(opt) == opt.some /\ opt.val # <<>>

(***************************************************************************)
(* The facet getters.  TourismSystemOffline (offline_main.py) and the      *)
(* child agents (agents.py) each resolve the place again with their own    *)
(* get_coordinates call, answered by gc, before they call their provider.  *)
(* Each operator gives the getter's return value (info), the client calls  *)
(* it made in order (calls) and what the provider returned (data; None     *)
(* when the provider was not called).                                      *)
(***************************************************************************)
Call(op, ok) == [op |-> op, ok |-> ok]

\* OfflineGetWeatherInfo asking for the weather without geocoding first.
OfflineGetWeatherInfoNoGeocode(name, gc, w) ==
    LET weather_data == GetWeather(w)
    IN  [info |-> IF ~weather_data.some
                  THEN None
                  ELSE Some(WeatherSentence(name, weather_data.val)),
         data |-> weather_data,
         calls |-> <<Call("get_weather", weather_data.some)>>]

OfflineGetWeatherInfo(name, gc, w) ==
    LET coords == GetCoordinates(gc)
        weather_data == GetWeather(w)
    IN  IF ~coords.some
        THEN [info |-> None, data |-> None,
              calls |-> <<Call("get_coordinates", FALSE)>>]
        ELSE [info |-> IF ~weather_data.some
                       THEN None
                       ELSE Some(WeatherSentence(name, weather_data.val)),
              data |-> weather_data,
              calls |-> <<Call("get_coordinates", TRUE),
                          Call("get_weather", weather_data.some)>>]

\* OfflineGetPlacesInfo without the guard of lines 37-38: it asks Overpass
\* whether or not the place resolved.
OfflineGetPlacesInfoNoGuard(name, gc, p, limit) ==
    LET coords == GetCoordinates(gc)
        attractions == GetTouristAttractions(p, limit)
    IN  [info |-> Some(PlacesRendering(name, attractions)),
         data |-> Some(attractions),
         calls |-> <<Call("get_coordinates", coords.some),
                     Call("get_tourist_attractions", attractions # <<>>)>>]

OfflineGetPlacesInfo(name, gc, p, limit) ==
    LET coords == GetCoordinates(gc)
        attractions == GetTouristAttractions(p, limit)
    IN  IF ~coords.some
        THEN [info |-> None, data |-> None,
              calls |-> <<Call("get_coordinates", FALSE)>>]
        ELSE [info |-> Some(PlacesRendering(name, attractions)),
              data |-> Some(attractions),
              calls |-> <<Call("get_coordinates", TRUE),
                          Call("get_tourist_attractions", attractions # <<>>)>>]

AgentGetWeatherInfo(name, gc, w) ==
    LET coords == GetCoordinates(gc)
        weather_data == GetWeather(w)
    IN  IF ~coords.some
        THEN [info |-> None, data |-> None,
              calls |-> <<Call("get_coordinates", FALSE)>>]
        ELSE [info |-> IF ~weather_data.some
                       THEN None
                       ELSE Some(WeatherSentence(name, weather_data.val)),
              data |-> weather_data,
              calls |-> <<Call("get_coordinates", TRUE),
                          Call("get_weather", weather_data.some)>>]

\* AgentGetPlacesInfo asking Overpass a second time when it got nothing.
AgentGetPlacesInfoRetry(name, gc, p, limit) ==
    LET coords == GetCoordinates(gc)
        attractions == GetTouristAttractions(p, limit)
    IN  IF ~coords.some
        THEN [info |-> None, data |-> None,
              calls |-> <<Call("get_coordinates", FALSE)>>]
        ELSE [info |-> Some(PlacesRendering(name, attractions)),
              data |-> Some(attractions),
              calls |-> IF attractions = <<>>
                        THEN <<Call("get_coordinates", TRUE),
                               Call("get_tourist_attractions", FALSE),
                               Call("get_tourist_attractions", FALSE)>>
                        ELSE <<Call("get_coordinates", TRUE),
                               Call("get_tourist_attractions", TRUE)>>]

AgentGetPlacesInfo(name, gc, p, limit) ==
    LET coords == GetCoordinates(gc)
        attractions == GetTouristAttractions(p, limit)
    IN  IF ~coords.some
        THEN [info |-> None, data |-> None,
              calls |-> <<Call("get_coordinates", FALSE)>>]
        ELSE [info |-> Some(PlacesRendering(name, attractions)),
              data |-> Some(attractions),
              calls |-> <<Call("get_coordinates", TRUE),
                          Call("get_tourist_attractions", attractions # <<>>)>>]

(***************************************************************************)
(* TourismSystemOffline.process_query (offline_main.py 49-78), block by    *)
(* block: parts is response_parts.                                         *)
(***************************************************************************)
\* Lines 53-58, once get_weather_info has returned weather.
OfflineAppendWeather(parts, name, weather) ==
    IF Truthy(weather)
    THEN Append(parts, weather.val)
    ELSE Append(parts, WeatherFailure(name))

\* OfflineAppendPlaces appending the Places text as it is, lead-in included,
\* after a Weather piece too.
OfflineAppendPlacesPlain(parts, name, weather_flag, places) ==
    IF Truthy(places)
    THEN Append(parts, places.val)
    ELSE Append(parts, PlacesFailure(name))

\* Lines 60-73, once get_places_info has returned places.
OfflineAppendPlaces(parts, name, weather_flag, places) ==
    IF Truthy(places)
    THEN IF weather_flag /\ parts # <<>>
         THEN Append(parts, PlacesAfterWeather(places.val))
         ELSE Append(parts, places.val)
    ELSE Append(parts, PlacesFailure(name))

\* OfflineRespond falling back to the generic sentence when both facets
\* failed, too.
OfflineRespondGenericOnFailure(parts, name) ==
    IF parts = <<>> \/ parts = <<WeatherFailure(name), PlacesFailure(name)>>
    THEN OfflineGeneric(name)
    ELSE Join(<<" ">>, parts)

\* Lines 75-78.
OfflineRespond(parts, name) ==
    IF parts = <<>> THEN OfflineGeneric(name) ELSE Join(<<" ">>, parts)

(***************************************************************************)
(* TourismAIAgent (agents.py).                                             *)
(***************************************************************************)
WeatherKeywords ==
    << <<"t", "e", "m", "p", "e", "r", "a", "t", "u", "r", "e">>,
      <<"w", "e", "a", "t", "h", "e", "r">>,
      <<"r", "a", "i", "n">>,
      <<"t", "e", "m", "p", "e", "r", "a", "t", "u", "r", "e", " ", "t", "h", "e", "r", "e">>,
      <<"h", "o", "t">>,
      <<"c", "o", "l", "d">>,
      <<"f", "o", "r", "e", "c", "a", "s", "t">> >>

PlacesKeywords ==
    << <<"p", "l", "a", "c", "e", "s">>,
      <<"v", "i", "s", "i", "t">>,
      <<"a", "t", "t", "r", "a", "c", "t", "i", "o", "n", "s">>,
      <<"t", "o", "u", "r", "i", "s", "t">>,
      <<"s", "e", "e">>,
      <<"g", "o">>,
      <<"p", "l", "a", "n", " ", "m", "y", " ", "t", "r", "i", "p">> >>

\* determine_intent without the default of lines 176-177.
DetermineIntentNoDefault(text) ==
    LET user_lower == StrLower(text)
    IN  [weather |-> \E i \in DOMAIN WeatherKeywords : StrIn(WeatherKeywords[i], user_lower),
         places |-> \E i \in DOMAIN PlacesKeywords : StrIn(PlacesKeywords[i], user_lower)]

\* determine_intent.
DetermineIntent(text) ==
    LET user_lower == StrLower(text)
        needs_weather == \E i \in DOMAIN WeatherKeywords : StrIn(WeatherKeywords[i], user_lower)
        needs_places == \E i \in DOMAIN PlacesKeywords : StrIn(PlacesKeywords[i], user_lower)
    IN  [weather |-> needs_weather,
         places |-> IF ~needs_weather /\ ~needs_places THEN TRUE ELSE needs_places]

\* extract_place_name comparing the completion with "NONE" as written,
\* without upper-casing it.
ExtractPlaceNameCaseSensitive(llm) ==
    IF llm.kind # "ok"
    THEN None
    ELSE LET name == StrStrip(llm.content)
         IN  IF name = <<"N", "O", "N", "E">> \/ name = <<>>
             THEN None
             ELSE Some(name)

\* extract_place_name: llm is the chat completion, llm.kind "ok" with its
\* content, or "error" when the call raises.
ExtractPlaceName(llm) ==
    IF llm.kind # "ok"
    THEN None
    ELSE LET name == StrStrip(llm.content)
         IN  IF StrUpper(name) = <<"N", "O", "N", "E">> \/ name = <<>>
             THEN None
             ELSE Some(name)

CouldNotIdentify ==
    <<"I couldn't identify a place name in your message. Please specify a location.">>

AgentFallback ==
    <<"I don't know this place exists. Could you please check the spelling or provide more details about the location?">>

\* AgentParts giving up on the Places piece when there is no Weather piece.
AgentPartsWeatherFirst(weather, places) ==
    IF Truthy(weather)
    THEN IF Truthy(places)
         THEN <<weather.val, PlacesAfterWeather(places.val)>>
         ELSE <<weather.val>>
    ELSE <<>>

\* Lines 246-261: response_parts built from the two getters' results.
AgentParts(weather, places) ==
    LET first == IF Truthy(weather) THEN <<weather.val>> ELSE <<>>
    IN  IF Truthy(places)
        THEN IF Truthy(weather)
             THEN Append(first, PlacesAfterWeather(places.val))
             ELSE Append(first, places.val)
        ELSE first

\* Lines 263-266.
AgentRespond(parts, name) ==
    IF parts = <<>> THEN AgentGeneric(name) ELSE Join(<<" ">>, parts)

(***************************************************************************)
(* Inputs: what callers type and what the external services answer.        *)
(***************************************************************************)
Bangalore == <<"B", "a", "n", "g", "a", "l", "o", "r", "e">>

Smallville == <<"S", "m", "a", "l", "l", "v", "i", "l", "l", "e">>

XyzAbc123 == <<"X", "y", "z", "A", "b", "c", "1", "2", "3">>

Bengaluru == <<"B", "e", "n", "g", "a", "l", "u", "r", "u">>

PlaceNames == {Bangalore, Smallville, XyzAbc123}

\* What a user types at the CLI prompt or posts as 'place'.
TypedPlaces == PlaceNames \cup {<<>>, <<" ">> \o Bangalore \o <<" ">>, <<"q", "u", "i", "t">>}

QuitWords == {<<"q", "u", "i", "t">>, <<"e", "x", "i", "t">>, <<"q">>}

\* The queries of test_system.py, and two more.
PlanTripText ==
    <<"I", "'", "m", " ", "g", "o", "i", "n", "g", " ", "t", "o",
      " ", "g", "o", " ", "t", "o", " ", "B", "a", "n", "g", "a",
      "l", "o", "r", "e", ",", " ", "l", "e", "t", "'", "s", " ",
      "p", "l", "a", "n", " ", "m", "y", " ", "t", "r", "i", "p",
      ".">>

TemperatureText ==
    <<"I", "'", "m", " ", "g", "o", "i", "n", "g", " ", "t", "o",
      " ", "g", "o", " ", "t", "o", " ", "B", "a", "n", "g", "a",
      "l", "o", "r", "e", ",", " ", "w", "h", "a", "t", " ", "i",
      "s", " ", "t", "h", "e", " ", "t", "e", "m", "p", "e", "r",
      "a", "t", "u", "r", "e", " ", "t", "h", "e", "r", "e">>

BothText ==
    <<"I", "'", "m", " ", "g", "o", "i", "n", "g", " ", "t", "o",
      " ", "g", "o", " ", "t", "o", " ", "B", "a", "n", "g", "a",
      "l", "o", "r", "e", ",", " ", "w", "h", "a", "t", " ", "i",
      "s", " ", "t", "h", "e", " ", "t", "e", "m", "p", "e", "r",
      "a", "t", "u", "r", "e", " ", "t", "h", "e", "r", "e", "?",
      " ", "A", "n", "d", " ", "w", "h", "a", "t", " ", "a", "r",
      "e", " ", "t", "h", "e", " ", "p", "l", "a", "c", "e", "s",
      " ", "I", " ", "c", "a", "n", " ", "v", "i", "s", "i", "t",
      "?">>

WeatherInText ==
    <<"W", "e", "a", "t", "h", "e", "r", " ", "i", "n", " ", "B",
      "a", "n", "g", "a", "l", "o", "r", "e">>

BareText ==
    <<"B", "a", "n", "g", "a", "l", "o", "r", "e">>

UserTexts == {PlanTripText, TemperatureText, BothText, WeatherInText, BareText}

\* The menu of offline_main.main (line 142) and the interrupt at the prompt.
InfoOptions ==
    << <<"W", "e", "a", "t", "h", "e", "r", " ", "o", "n", "l", "y">>,
       <<"T", "o", "u", "r", "i", "s", "t", " ", "p", "l", "a", "c",
         "e", "s", " ", "o", "n", "l", "y">>,
       <<"B", "o", "t", "h", " ", "w", "e", "a", "t", "h", "e", "r",
         " ", "a", "n", "d", " ", "p", "l", "a", "c", "e", "s">> >>

GeoMatch(name, type, importance) ==
    [kind |-> "ok", hasName |-> TRUE, name |-> name,
     hasDisplay |-> TRUE, display_name |-> name \o <<", ", "IN">>,
     hasType |-> TRUE, type |-> type,
     hasImportance |-> TRUE, importance |-> importance,
     lat |-> "12.97", lon |-> "77.59"]

\* A match that leaves out every optional field.
GeoBareMatch ==
    [kind |-> "ok", hasName |-> FALSE, hasDisplay |-> FALSE, hasType |-> FALSE,
     hasImportance |-> FALSE, lat |-> "12.97", lon |-> "77.59"]

GeoFailure(kind) == [kind |-> kind]

GeoFailures ==
    {GeoFailure(k) : k \in {"empty", "timeout", "http_error", "malformed"}}

City == <<"c", "i", "t", "y">>

Hamlet == <<"h", "a", "m", "l", "e", "t">>

Village == <<"V", "i", "l", "l", "a", "g", "e">>

Locality == <<"l", "o", "c", "a", "l", "i", "t", "y">>

\* The geocoder's answers to get_place_details in Spec.
GeoAnswers ==
    { GeoMatch(Bangalore, City, 90),
      GeoMatch(Smallville, Hamlet, 10),
      GeoMatch(Smallville, Village, 30),
      GeoMatch(Bengaluru, City, 90),
      GeoFailure("empty"),
      GeoFailure("timeout") }

\* The geocoder's answers to get_coordinates.
CoordAnswers ==
    { GeoMatch(Bangalore, City, 90), GeoFailure("empty"), GeoFailure("timeout") }

WeatherAnswers ==
    { [kind |-> "ok", temperature |-> "24", unit |-> "degC",
       precipitation_probability |-> "10"],
      [kind |-> "no_current"],
      [kind |-> "timeout"],
      [kind |-> "http_error"],
      [kind |-> "malformed"] }

Element(tourism, name, name_en) ==
    [tourism |-> tourism, name |-> name, name_en |-> name_en, name_en_gb |-> "",
     other |-> TRUE]

Elements ==
    { Element("attraction", "Lalbagh", ""),
      Element("museum", "Cubbon Park", ""),
      Element("", "Cafe", ""),
      Element("viewpoint", "", "Lalbagh"),
      Element("hotel", "", ""),
      [tourism |-> "", name |-> "", name_en |-> "", name_en_gb |-> "", other |-> FALSE] }

ElementLists == UNION {[1..n -> Elements] : n \in 0..MaxElements}

PlacesAnswers ==
    {[kind |-> "ok", elements |-> es] : es \in ElementLists}
        \cup {[kind |-> "timeout"], [kind |-> "http_error"], [kind |-> "malformed"]}

\* The chat completions: what the extractor answers, and the reply asked
\* for when a place is not found.
ExtractAnswers ==
    {[kind |-> "ok", content |-> c] :
        c \in PlaceNames \cup {<<"N", "O", "N", "E">>, <<"N", "o", "n", "e">>, <<>>, <<" ">>}}
        \cup {[kind |-> "error"]}

ReplyAnswers ==
    { [kind |-> "ok", content |-> <<"Sorry, I don't know that place.">>],
      [kind |-> "error"] }

(***************************************************************************)
(* State.  One query is handled at a time; pc is the handler's position,   *)
(* and a step ends where the handler waits for an external answer.         *)
(***************************************************************************)
VARIABLES
    pc,             \* "idle", "extract", "verify", "choice", "weather",
                    \* "places", "respond", "done", "exited", "flow_weather",
                    \* "flow_places"
    entry,          \* the entry point handling the query
    has_openai,     \* app.py has_openai: whether TourismAIAgent was constructed
    user_input,     \* the free text of an online query
    place_name,     \* the place the query is about
    get_weather,    \* the Weather facet is requested
    get_places,     \* the Places facet is requested
    verified,       \* the verify_place_exists call of this query and its result
    weather_info,   \* what get_weather_info returned
    places_info,    \* what get_places_info returned
    weather_data,   \* what the weather provider returned (None: nothing, or not called)
    attractions,    \* what the places provider returned (None: not called)
    response_parts, \* TourismSystemOffline.process_query's response_parts
    response,       \* the text returned or printed
    outcome,        \* "none", "answered", "not_found", "no_place", "bad_request",
                    \* "verified", "rejected", "classified", "listed"
    calls,          \* the client calls of this query, in order
    weather_answer, \* what Open-Meteo answered to this query (NoAnswer: not called)
    places_answer,  \* what Overpass answered to this query (NoAnswer: not called)
    places_limit,   \* the limit get_tourist_attractions was called with
    ctx,            \* the requests app.py handles at the same time, each with the
                    \* local variables of its query() call
    llm_answer      \* the chat completion extract_place_name got (NoAnswer: not asked)

vars ==
    <<pc, entry, has_openai, user_input, place_name, get_weather, get_places,
      verified, weather_info, places_info, weather_data, attractions,
      response_parts, response, outcome, calls, weather_answer, places_answer,
      places_limit, ctx, llm_answer>>

NotVerified == [called |-> FALSE]

\* No answer: the provider was not called.
NoAnswer == [kind |-> "none"]

\* The requests the web server handles at the same time.
Requests == 1..2

\* The local variables of a query() call that has not started; got_weather
\* and got_places keep what the two getters returned to this request, and
\* overlapped whether the other request was being handled when it started.
IdleRequest ==
    [pc |-> "idle", mode |-> "none", place_name |-> <<>>, user_input |-> <<>>,
     get_weather |-> FALSE, get_places |-> FALSE,
     weather_info |-> None, places_info |-> None,
     got_weather |-> None, got_places |-> None,
     response_parts |-> <<>>, response |-> <<>>, outcome |-> "none",
     overlapped |-> FALSE]

Structured == {"direct", "api", "cli"}

Init ==
    /\ pc = "idle"
    /\ entry = "none"
    /\ has_openai \in BOOLEAN
    /\ user_input = <<>>
    /\ place_name = <<>>
    /\ get_weather = FALSE
    /\ get_places = FALSE
    /\ verified = NotVerified
    /\ weather_info = None
    /\ places_info = None
    /\ weather_data = None
    /\ attractions = None
    /\ response_parts = <<>>
    /\ response = <<>>
    /\ outcome = "none"
    /\ calls = <<>>
    /\ weather_answer = NoAnswer
    /\ places_answer = NoAnswer
    /\ places_limit = DefaultLimit
    /\ ctx = [r \in Requests |-> IdleRequest]
    /\ llm_answer = NoAnswer

\* test_offline.py: TourismSystemOffline.process_query called directly.
DirectCall(name, weather_flag, places_flag) ==
    /\ pc = "idle"
    /\ entry' = "direct"
    /\ place_name' = name
    /\ get_weather' = weather_flag
    /\ get_places' = places_flag
    /\ pc' = "weather"
    /\ UNCHANGED <<weather_answer, places_answer, places_limit, ctx>>
    /\ UNCHANGED llm_answer
    /\ UNCHANGED <<has_openai, user_input, verified, weather_info, places_info,
                   weather_data, attractions, response_parts, response, outcome, calls>>

\* app.py query(), mode 'offline', language 'en': lines 45-57 and 133-138.
ApiOfflineQuery(typed, weather_flag, places_flag) ==
    /\ pc = "idle"
    /\ entry' = "api"
    /\ place_name' = StrStrip(typed)
    /\ get_weather' = weather_flag
    /\ get_places' = places_flag
    /\ IF StrStrip(typed) = <<>>
       THEN /\ pc' = "done"
            /\ outcome' = "bad_request"
            /\ response' = <<"Please provide a place name or query">>
       ELSE /\ pc' = "verify"
            /\ UNCHANGED <<outcome, response>>
    /\ UNCHANGED <<weather_answer, places_answer, places_limit, ctx>>
    /\ UNCHANGED llm_answer
    /\ UNCHANGED <<has_openai, user_input, verified, weather_info, places_info,
                   weather_data, attractions, response_parts, calls>>

\* offline_main.main, lines 116-123: the prompt for a place.
CliInput(typed) ==
    /\ pc = "idle"
    /\ IF StrStrip(typed) = <<>>
       THEN UNCHANGED <<pc, entry, place_name>>
       ELSE /\ entry' = "cli"
            /\ place_name' = StrStrip(typed)
            /\ pc' = IF StrLower(StrStrip(typed)) \in QuitWords THEN "exited" ELSE "verify"
    /\ UNCHANGED <<weather_answer, places_answer, places_limit, ctx>>
    /\ UNCHANGED llm_answer
    /\ UNCHANGED <<has_openai, user_input, get_weather, get_places, verified,
                   weather_info, places_info, weather_data, attractions,
                   response_parts, response, outcome, calls>>

\* TourismAIAgent.process_query entered (main.py 41, app.py 75); the agent
\* exists only when the OpenAI key was found.
FreeTextQuery(text) ==
    /\ pc = "idle"
    /\ has_openai
    /\ entry' = "freetext"
    /\ user_input' = text
    /\ pc' = "extract"
    /\ UNCHANGED <<weather_answer, places_answer, places_limit, ctx>>
    /\ UNCHANGED llm_answer
    /\ UNCHANGED <<has_openai, place_name, get_weather, get_places, verified,
                   weather_info, places_info, weather_data, attractions,
                   response_parts, response, outcome, calls>>

\* agents.py 194-198.
ExtractStep(llm) ==
    /\ pc = "extract"
    /\ llm_answer' = llm
    /\ calls' = Append(calls, Call("extract_place_name", ExtractPlaceName(llm).some))
    /\ IF ExtractPlaceName(llm).some
       THEN /\ place_name' = ExtractPlaceName(llm).val
            /\ pc' = "verify"
            /\ UNCHANGED <<response, outcome>>
       ELSE /\ response' = CouldNotIdentify
            /\ outcome' = "no_place"
            /\ pc' = "done"
            /\ UNCHANGED place_name
    /\ UNCHANGED <<weather_answer, places_answer, places_limit, ctx>>
    /\ UNCHANGED <<entry, has_openai, user_input, get_weather, get_places, verified,
                   weather_info, places_info, weather_data, attractions,
                   response_parts>>

\* app.py generate_error_response(place_name, 'en', has_openai).
GenerateErrorResponse(use_ai, reply) ==
    IF use_ai /\ reply.kind = "ok" THEN reply.content ELSE NotExistsMessage

\* What each entry point answers when verification fails: app.py 143-152,
\* offline_main.py 129-133, agents.py 202-223.
NotFoundResponse(point, use_ai, v, reply) ==
    IF point = "api"
    THEN GenerateErrorResponse(use_ai, reply)
    ELSE IF point = "cli"
         THEN IF v.details.some
              THEN NotExistsMessage \o <<"(Note: Found similar place: ">>
                       \o v.details.val.display_name \o <<")">>
              ELSE NotExistsMessage
         ELSE IF reply.kind = "ok" THEN reply.content ELSE AgentFallback

\* AfterVerify without the early return: the query goes on when the place
\* was rejected.
AfterVerifyNoReturn(point, exists) ==
    IF point = "cli" THEN "choice" ELSE "weather"

\* AfterVerify with the CLI loop lacking its `continue`: it shows the menu
\* for a rejected place.
AfterVerifyCliGoesOn(point, exists) ==
    IF point = "cli" THEN "choice"
    ELSE IF ~exists THEN "done" ELSE "weather"

\* Where the handler continues after verify_place_exists: the early return
\* (or `continue`) of app.py 143, offline_main.py 129 and agents.py 202 when
\* the place does not exist.
AfterVerify(point, exists) ==
    IF ~exists THEN "done"
    ELSE IF point = "cli" THEN "choice" ELSE "weather"

\* The strict verification every gated entry point starts with (app.py 141,
\* offline_main.py 127, agents.py 201) and what follows it up to the next
\* external call; the free-text path classifies the intent here (agents.py 226).
VerifyStep(g, reply) ==
    LET v == VerifyPlaceExists(place_name, TRUE, g)
        intent == DetermineIntent(user_input)
    IN  /\ pc = "verify"
        /\ verified' = [called |-> TRUE, strict |-> TRUE, geo |-> g,
                        exists |-> v.exists, details |-> v.details,
                        message |-> v.message]
        /\ pc' = AfterVerify(entry, v.exists)
        /\ IF v.exists
           THEN /\ calls' = IF entry = "freetext"
                            THEN calls \o <<Call("verify_place_exists", TRUE),
                                            Call("determine_intent", TRUE)>>
                            ELSE Append(calls, Call("verify_place_exists", TRUE))
                /\ get_weather' = IF entry = "freetext" THEN intent.weather ELSE get_weather
                /\ get_places' = IF entry = "freetext" THEN intent.places ELSE get_places
                /\ UNCHANGED <<response, outcome>>
           ELSE /\ calls' = IF entry # "cli" /\ (entry = "freetext" \/ has_openai)
                            THEN calls \o <<Call("verify_place_exists", FALSE),
                                            Call("chat_completion", reply.kind = "ok")>>
                            ELSE Append(calls, Call("verify_place_exists", FALSE))
                /\ response' = NotFoundResponse(entry, has_openai, v, reply)
                /\ outcome' = "not_found"
                /\ UNCHANGED <<get_weather, get_places>>
        /\ UNCHANGED <<weather_answer, places_answer, places_limit, ctx>>
        /\ UNCHANGED llm_answer
        /\ UNCHANGED <<entry, has_openai, user_input, place_name, weather_info,
                       places_info, weather_data, attractions, response_parts>>

\* offline_main.main, lines 142-149: the menu; choice 0 is the interrupt that
\* makes get_user_choice return None.
CliChoice(choice) ==
    /\ pc = "choice"
    /\ IF choice = 0
       THEN /\ pc' = "exited"
            /\ UNCHANGED <<get_weather, get_places>>
       ELSE LET lowered == StrLower(InfoOptions[choice])
                both == StrIn(<<"b", "o", "t", "h">>, lowered)
            IN  /\ get_weather' =
                       (StrIn(<<"w", "e", "a", "t", "h", "e", "r">>, lowered) \/ both)
                /\ get_places' =
                       (\/ StrIn(<<"p", "l", "a", "c", "e", "s">>, lowered)
                        \/ StrIn(<<"t", "o", "u", "r", "i", "s", "t">>, lowered)
                        \/ both)
                /\ pc' = "weather"
    /\ UNCHANGED <<weather_answer, places_answer, places_limit, ctx>>
    /\ UNCHANGED llm_answer
    /\ UNCHANGED <<entry, has_openai, user_input, place_name, verified, weather_info,
                   places_info, weather_data, attractions, response_parts, response,
                   outcome, calls>>

\* The Weather facet: offline_main.py 53-58, agents.py 232-237.
WeatherStep(gc, w) ==
    LET r == IF entry \in Structured
             THEN OfflineGetWeatherInfo(place_name, gc, w)
             ELSE AgentGetWeatherInfo(place_name, gc, w)
    IN  /\ pc = "weather"
        /\ get_weather
        /\ weather_info' = r.info
        /\ weather_data' = r.data
        /\ weather_answer' = IF GetCoordinates(gc).some THEN w ELSE NoAnswer
        /\ calls' = calls \o r.calls
        /\ response_parts' = IF entry \in Structured
                             THEN OfflineAppendWeather(response_parts, place_name, r.info)
                             ELSE response_parts
        /\ pc' = "places"
        /\ UNCHANGED <<places_answer, places_limit, ctx>>
        /\ UNCHANGED llm_answer
        /\ UNCHANGED <<entry, has_openai, user_input, place_name, get_weather,
                       get_places, verified, places_info, attractions, response,
                       outcome>>

\* The Weather facet was not requested.
WeatherSkip ==
    /\ pc = "weather"
    /\ ~get_weather
    /\ pc' = "places"
    /\ UNCHANGED <<weather_answer, places_answer, places_limit, ctx>>
    /\ UNCHANGED llm_answer
    /\ UNCHANGED <<entry, has_openai, user_input, place_name, get_weather, get_places,
                   verified, weather_info, places_info, weather_data, attractions,
                   response_parts, response, outcome, calls>>

\* The Places facet: offline_main.py 60-73, agents.py 239-244.
PlacesStep(gc, p) ==
    LET r == IF entry \in Structured
             THEN OfflineGetPlacesInfo(place_name, gc, p, DefaultLimit)
             ELSE AgentGetPlacesInfo(place_name, gc, p, DefaultLimit)
    IN  /\ pc = "places"
        /\ get_places
        /\ places_info' = r.info
        /\ attractions' = r.data
        /\ places_answer' = IF GetCoordinates(gc).some THEN p ELSE NoAnswer
        /\ places_limit' = DefaultLimit
        /\ calls' = calls \o r.calls
        /\ response_parts' = IF entry \in Structured
                             THEN OfflineAppendPlaces(response_parts, place_name,
                                                      get_weather, r.info)
                             ELSE response_parts
        /\ pc' = "respond"
        /\ UNCHANGED <<weather_answer, ctx>>
        /\ UNCHANGED llm_answer
        /\ UNCHANGED <<entry, has_openai, user_input, place_name, get_weather,
                       get_places, verified, weather_info, weather_data, response,
                       outcome>>

\* The Places facet was not requested.
PlacesSkip ==
    /\ pc = "places"
    /\ ~get_places
    /\ pc' = "respond"
    /\ UNCHANGED <<weather_answer, places_answer, places_limit, ctx>>
    /\ UNCHANGED llm_answer
    /\ UNCHANGED <<entry, has_openai, user_input, place_name, get_weather, get_places,
                   verified, weather_info, places_info, weather_data, attractions,
                   response_parts, response, outcome, calls>>

\* The return of process_query: offline_main.py 75-78, agents.py 246-266.
Respond ==
    /\ pc = "respond"
    /\ response_parts' = IF entry \in Structured
                         THEN response_parts
                         ELSE AgentParts(weather_info, places_info)
    /\ response' = IF entry \in Structured
                   THEN OfflineRespond(response_parts, place_name)
                   ELSE AgentRespond(AgentParts(weather_info, places_info), place_name)
    /\ outcome' = "answered"
    /\ pc' = "done"
    /\ UNCHANGED <<weather_answer, places_answer, places_limit, ctx>>
    /\ UNCHANGED llm_answer
    /\ UNCHANGED <<entry, has_openai, user_input, place_name, get_weather, get_places,
                   verified, weather_info, places_info, weather_data, attractions,
                   calls>>

\* A caller of NominatimClient.verify_place_exists alone: test_apis.py 27
\* (strict=False) and app.py verify_place, line 197 (strict=True).
VerifyOnly(name, strict, g) ==
    LET v == VerifyPlaceExists(name, strict, g)
    IN  /\ pc = "idle"
        /\ entry' = "verify_only"
        /\ place_name' = name
        /\ verified' = [called |-> TRUE, strict |-> strict, geo |-> g,
                        exists |-> v.exists, details |-> v.details,
                        message |-> v.message]
        /\ calls' = Append(calls, Call("verify_place_exists", v.exists))
        /\ outcome' = IF v.exists THEN "verified" ELSE "rejected"
        /\ pc' = "done"
        /\ UNCHANGED <<weather_answer, places_answer, places_limit, ctx>>
        /\ UNCHANGED llm_answer
        /\ UNCHANGED <<has_openai, user_input, get_weather, get_places, weather_info,
                       places_info, weather_data, attractions, response_parts,
                       response>>

\* test_apis.py test_full_flow: the three clients called one after the other
\* with the coordinates of one get_coordinates call; the script stops at the
\* first client that gives nothing.
FullFlowLimit == 3

FullFlowGeocode(gc) ==
    /\ pc = "idle"
    /\ entry' = "full_flow"
    /\ place_name' = Bangalore
    /\ calls' = Append(calls, Call("get_coordinates", GetCoordinates(gc).some))
    /\ IF GetCoordinates(gc).some
       THEN pc' = "flow_weather" /\ UNCHANGED outcome
       ELSE pc' = "done" /\ outcome' = "flow_failed"
    /\ UNCHANGED llm_answer
    /\ UNCHANGED <<has_openai, user_input, get_weather, get_places, verified,
                   weather_info, places_info, weather_data, attractions, response_parts,
                   response, weather_answer, places_answer, places_limit, ctx>>

FullFlowWeather(w) ==
    /\ pc = "flow_weather"
    /\ weather_answer' = w
    /\ weather_data' = GetWeather(w)
    /\ calls' = Append(calls, Call("get_weather", GetWeather(w).some))
    /\ IF GetWeather(w).some
       THEN pc' = "flow_places" /\ UNCHANGED outcome
       ELSE pc' = "done" /\ outcome' = "flow_failed"
    /\ UNCHANGED llm_answer
    /\ UNCHANGED <<entry, has_openai, user_input, place_name, get_weather, get_places,
                   verified, weather_info, places_info, attractions, response_parts,
                   response, places_answer, places_limit, ctx>>

FullFlowPlaces(p) ==
    /\ pc = "flow_places"
    /\ places_answer' = p
    /\ places_limit' = FullFlowLimit
    /\ attractions' = Some(GetTouristAttractions(p, FullFlowLimit))
    /\ calls' = Append(calls, Call("get_tourist_attractions",
                                  GetTouristAttractions(p, FullFlowLimit) # <<>>))
    /\ outcome' = "flow_passed"
    /\ pc' = "done"
    /\ UNCHANGED llm_answer
    /\ UNCHANGED <<entry, has_openai, user_input, place_name, get_weather, get_places,
                   verified, weather_info, places_info, weather_data, response_parts,
                   response, weather_answer, ctx>>

\* The handler has returned; the request-local values are gone and the next
\* query starts from scratch (the loops of main.py and offline_main.main,
\* the next HTTP request, the next call of a test script).
NextQuery ==
    /\ pc = "done"
    /\ pc' = "idle"
    /\ entry' = "none"
    /\ user_input' = <<>>
    /\ place_name' = <<>>
    /\ get_weather' = FALSE
    /\ get_places' = FALSE
    /\ verified' = NotVerified
    /\ weather_info' = None
    /\ places_info' = None
    /\ weather_data' = None
    /\ attractions' = None
    /\ response_parts' = <<>>
    /\ response' = <<>>
    /\ outcome' = "none"
    /\ calls' = <<>>
    /\ weather_answer' = NoAnswer
    /\ places_answer' = NoAnswer
    /\ places_limit' = DefaultLimit
    /\ llm_answer' = NoAnswer
    /\ UNCHANGED ctx
    /\ UNCHANGED has_openai

Next ==
    \/ \E name \in PlaceNames, wf \in BOOLEAN, pf \in BOOLEAN : DirectCall(name, wf, pf)
    \/ \E typed \in TypedPlaces, wf \in BOOLEAN, pf \in BOOLEAN :
           ApiOfflineQuery(typed, wf, pf)
    \/ \E typed \in TypedPlaces : CliInput(typed)
    \/ \E text \in UserTexts : FreeTextQuery(text)
    \/ \E llm \in ExtractAnswers : ExtractStep(llm)
    \/ \E g \in GeoAnswers, reply \in ReplyAnswers : VerifyStep(g, reply)
    \/ \E choice \in 0..Len(InfoOptions) : CliChoice(choice)
    \/ \E gc \in CoordAnswers, w \in WeatherAnswers : WeatherStep(gc, w)
    \/ WeatherSkip
    \/ \E gc \in CoordAnswers, p \in PlacesAnswers : PlacesStep(gc, p)
    \/ PlacesSkip
    \/ Respond
    \/ \E name \in PlaceNames, strict \in BOOLEAN, g \in GeoAnswers :
           VerifyOnly(name, strict, g)
    \/ \E gc \in CoordAnswers : FullFlowGeocode(gc)
    \/ \E w \in WeatherAnswers : FullFlowWeather(w)
    \/ \E p \in PlacesAnswers : FullFlowPlaces(p)
    \/ NextQuery

Spec == Init /\ [][Next]_vars

(***************************************************************************)
(* SpecVerify: verify_place_exists alone, called with every short place    *)
(* name over a small alphabet and answered with every short resolved name, *)
(* the feature types and the importances on both sides of the threshold.   *)
(***************************************************************************)
Alphabet == {"a", "B", " "}

Strings(n) == UNION {[1..k -> Alphabet] : k \in 0..n}

TypedNames == Strings(MaxQueryLen) \cup PlaceNames

VerifyAnswers ==
    {GeoMatch(name, type, importance) :
        name \in Strings(MaxNameLen),
        type \in {City, Hamlet, Village, Locality},
        importance \in {29, 30}}
        \cup GeoAnswers \cup GeoFailures \cup {GeoBareMatch}

NextVerify ==
    \/ /\ pc = "idle"
       /\ \E name \in TypedNames, strict \in BOOLEAN, g \in VerifyAnswers :
              VerifyOnly(name, strict, g)
    \/ NextQuery

SpecVerify == Init /\ [][NextVerify]_vars

(***************************************************************************)
(* SpecConcurrent: app.py serving two /api/query requests at the same      *)
(* time, each in its own query() call on the shared offline_system and     *)
(* online_system.  The objects hold their three clients and nothing else   *)
(* (offline_main.py 12-15, agents.py 119-126), and the clients hold no     *)
(* attribute; place_name, the flags, weather_info, places_info and         *)
(* response_parts are local variables of the calls, so each request r has  *)
(* its own copy in ctx[r].  A step runs one request up to its next         *)
(* external call; the steps of the two requests interleave freely.         *)
(***************************************************************************)
\* The place each request asks for in offline mode.
RequestPlace == <<Bangalore, Smallville>>

ConcurrentGeoAnswers(r) == {GeoMatch(RequestPlace[r], City, 90), GeoFailure("empty")}

ConcurrentCoordAnswers(r) == {GeoMatch(RequestPlace[r], City, 90), GeoFailure("timeout")}

ConcurrentWeatherAnswers ==
    { [kind |-> "ok", temperature |-> "24", unit |-> "degC",
       precipitation_probability |-> "10"],
      [kind |-> "timeout"] }

ConcurrentPlacesAnswers ==
    { [kind |-> "ok", elements |-> <<Element("attraction", "Lalbagh", "")>>],
      [kind |-> "timeout"] }

ConcurrentTexts == {BothText, PlanTripText}

AiUnavailable ==
    <<"AI Mode is not available. OpenAI API key is missing. Please use Offline Mode instead.">>

\* PartsOf with one response_parts list kept on the shared system object.
PartsOfShared(c, r) == c[1].response_parts

\* response_parts as request r sees it: the list its own process_query call
\* created (offline_main.py 51, agents.py 247).
PartsOf(c, r) == c[r].response_parts

\* Another request is being handled.
OtherInFlight(r) == \E o \in Requests \ {r} : ctx[o].pc \notin {"idle", "done"}

\* app.py query() up to its first external call: lines 45-72 and 133-138.
ConcurrentQuery(r, mode, weather_flag, places_flag, text) ==
    /\ ctx[r].pc = "idle"
    /\ ctx' = [ctx EXCEPT ![r] =
                  IF mode = "online"
                  THEN IF ~has_openai
                       THEN [@ EXCEPT !.mode = mode, !.user_input = text,
                                      !.overlapped = OtherInFlight(r),
                                      !.response = AiUnavailable,
                                      !.outcome = "bad_request", !.pc = "done"]
                       ELSE [@ EXCEPT !.mode = mode, !.user_input = text,
                                      !.overlapped = OtherInFlight(r),
                                      !.pc = "extract"]
                  ELSE [@ EXCEPT !.mode = mode, !.place_name = RequestPlace[r],
                                 !.get_weather = weather_flag,
                                 !.get_places = places_flag,
                                 !.overlapped = OtherInFlight(r),
                                 !.pc = "verify"]]
    /\ UNCHANGED llm_answer
    /\ UNCHANGED <<pc, entry, has_openai, user_input, place_name, get_weather, get_places,
                   verified, weather_info, places_info, weather_data, attractions,
                   response_parts, response, outcome, calls, weather_answer,
                   places_answer, places_limit>>

\* agents.py 194-198 for request r.
ConcurrentExtract(r, llm) ==
    /\ ctx[r].pc = "extract"
    /\ ctx' = [ctx EXCEPT ![r] =
                  IF ExtractPlaceName(llm).some
                  THEN [@ EXCEPT !.place_name = ExtractPlaceName(llm).val, !.pc = "verify"]
                  ELSE [@ EXCEPT !.response = CouldNotIdentify, !.outcome = "no_place",
                                 !.pc = "done"]]
    /\ UNCHANGED llm_answer
    /\ UNCHANGED <<pc, entry, has_openai, user_input, place_name, get_weather, get_places,
                   verified, weather_info, places_info, weather_data, attractions,
                   response_parts, response, outcome, calls, weather_answer,
                   places_answer, places_limit>>

\* app.py 141-152 and agents.py 201-226 for request r.
ConcurrentVerify(r, g, reply) ==
    LET v == VerifyPlaceExists(ctx[r].place_name, TRUE, g)
        intent == DetermineIntent(ctx[r].user_input)
        point == IF ctx[r].mode = "online" THEN "freetext" ELSE "api"
    IN  /\ ctx[r].pc = "verify"
        /\ ctx' = [ctx EXCEPT ![r] =
                      IF v.exists
                      THEN [@ EXCEPT !.get_weather = IF point = "freetext"
                                                    THEN intent.weather ELSE @,
                                     !.get_places = IF point = "freetext"
                                                   THEN intent.places ELSE @,
                                     !.pc = AfterVerify(point, TRUE)]
                      ELSE [@ EXCEPT !.response =
                                         NotFoundResponse(point, has_openai, v, reply),
                                     !.outcome = "not_found",
                                     !.pc = AfterVerify(point, FALSE)]]
        /\ UNCHANGED llm_answer
        /\ UNCHANGED <<pc, entry, has_openai, user_input, place_name, get_weather,
                       get_places, verified, weather_info, places_info, weather_data,
                       attractions, response_parts, response, outcome, calls,
                       weather_answer, places_answer, places_limit>>

\* The Weather block of request r: offline_main.py 53-58, agents.py 232-237.
ConcurrentWeather(r, gc, w) ==
    LET name == ctx[r].place_name
        got == IF ctx[r].mode = "offline"
               THEN OfflineGetWeatherInfo(name, gc, w)
               ELSE AgentGetWeatherInfo(name, gc, w)
    IN  /\ ctx[r].pc = "weather"
        /\ ctx' = [ctx EXCEPT ![r] =
                      IF ~ctx[r].get_weather
                      THEN [@ EXCEPT !.pc = "places"]
                      ELSE [@ EXCEPT !.weather_info = got.info,
                                     !.got_weather = got.info,
                                     !.response_parts =
                                         IF ctx[r].mode = "offline"
                                         THEN OfflineAppendWeather(PartsOf(ctx, r), name,
                                                                   got.info)
                                         ELSE @,
                                     !.pc = "places"]]
        /\ UNCHANGED llm_answer
        /\ UNCHANGED <<pc, entry, has_openai, user_input, place_name, get_weather,
                       get_places, verified, weather_info, places_info, weather_data,
                       attractions, response_parts, response, outcome, calls,
                       weather_answer, places_answer, places_limit>>

\* The Places block of request r: offline_main.py 60-73, agents.py 239-244.
ConcurrentPlaces(r, gc, p) ==
    LET name == ctx[r].place_name
        got == IF ctx[r].mode = "offline"
               THEN OfflineGetPlacesInfo(name, gc, p, DefaultLimit)
               ELSE AgentGetPlacesInfo(name, gc, p, DefaultLimit)
    IN  /\ ctx[r].pc = "places"
        /\ ctx' = [ctx EXCEPT ![r] =
                      IF ~ctx[r].get_places
                      THEN [@ EXCEPT !.pc = "respond"]
                      ELSE [@ EXCEPT !.places_info = got.info,
                                     !.got_places = got.info,
                                     !.response_parts =
                                         IF ctx[r].mode = "offline"
                                         THEN OfflineAppendPlaces(PartsOf(ctx, r), name,
                                                                  ctx[r].get_weather,
                                                                  got.info)
                                         ELSE @,
                                     !.pc = "respond"]]
        /\ UNCHANGED llm_answer
        /\ UNCHANGED <<pc, entry, has_openai, user_input, place_name, get_weather,
                       get_places, verified, weather_info, places_info, weather_data,
                       attractions, response_parts, response, outcome, calls,
                       weather_answer, places_answer, places_limit>>

\* The return of request r's process_query: offline_main.py 75-78,
\* agents.py 246-266.
ConcurrentRespond(r) ==
    /\ ctx[r].pc = "respond"
    /\ ctx' = [ctx EXCEPT ![r] =
                  IF ctx[r].mode = "offline"
                  THEN [@ EXCEPT !.response = OfflineRespond(PartsOf(ctx, r),
                                                            ctx[r].place_name),
                                 !.outcome = "answered", !.pc = "done"]
                  ELSE [@ EXCEPT !.response_parts =
                                     AgentParts(ctx[r].weather_info, ctx[r].places_info),
                                 !.response =
                                     AgentRespond(AgentParts(ctx[r].weather_info,
                                                             ctx[r].places_info),
                                                  ctx[r].place_name),
                                 !.outcome = "answered", !.pc = "done"]]
    /\ UNCHANGED llm_answer
    /\ UNCHANGED <<pc, entry, has_openai, user_input, place_name, get_weather, get_places,
                   verified, weather_info, places_info, weather_data, attractions,
                   response_parts, response, outcome, calls, weather_answer,
                   places_answer, places_limit>>

NextConcurrent ==
    \E r \in Requests :
        \/ \E mode \in {"offline", "online"}, wf \in BOOLEAN, pf \in BOOLEAN,
              text \in ConcurrentTexts :
               ConcurrentQuery(r, mode, wf, pf, text)
        \/ \E llm \in {[kind |-> "ok", content |-> Bangalore], [kind |-> "error"]} :
               ConcurrentExtract(r, llm)
        \/ \E g \in ConcurrentGeoAnswers(r) \cup {GeoMatch(Bangalore, City, 90)},
              reply \in ReplyAnswers :
               ConcurrentVerify(r, g, reply)
        \/ \E gc \in ConcurrentCoordAnswers(r), w \in ConcurrentWeatherAnswers :
               ConcurrentWeather(r, gc, w)
        \/ \E gc \in ConcurrentCoordAnswers(r), p \in ConcurrentPlacesAnswers :
               ConcurrentPlaces(r, gc, p)
        \/ ConcurrentRespond(r)

SpecConcurrent == Init /\ [][NextConcurrent]_vars

(***************************************************************************)
(* SpecIntent: determine_intent alone, applied to every text made of a few *)
(* fragments: the keywords, parts of keywords that join into one across a  *)
(* fragment boundary, upper-case spellings and text without any keyword.   *)
(***************************************************************************)
IntentFragments ==
    {WeatherKeywords[i] : i \in DOMAIN WeatherKeywords}
        \cup {PlacesKeywords[i] : i \in DOMAIN PlacesKeywords}
        \cup { <<"G", "o">>, <<"H", "O", "T">>, <<"h", "o">>, <<"t">>, <<"s", "e">>,
               <<"e">>, <<"x">>, <<" ">>, <<"t", "r", "i", "p">> }

RECURSIVE IntentTexts(_)
IntentTexts(n) ==
    IF n = 0
    THEN {<<>>}
    ELSE IntentTexts(n - 1)
             \cup {t \o f : t \in IntentTexts(n - 1), f \in IntentFragments}

\* determine_intent(text) called on its own.
ClassifyOnly(text) ==
    LET intent == DetermineIntent(text)
    IN  /\ pc = "idle"
        /\ entry' = "intent_only"
        /\ user_input' = text
        /\ get_weather' = intent.weather
        /\ get_places' = intent.places
        /\ outcome' = "classified"
        /\ pc' = "done"
        /\ UNCHANGED llm_answer
        /\ UNCHANGED <<has_openai, place_name, verified, weather_info, places_info,
                       weather_data, attractions, response_parts, response, calls,
                       weather_answer, places_answer, places_limit, ctx>>

NextIntent ==
    \/ /\ pc = "idle"
       /\ \E text \in IntentTexts(MaxFragments) \cup UserTexts : ClassifyOnly(text)
    \/ NextQuery

SpecIntent == Init /\ [][NextIntent]_vars

(***************************************************************************)
(* SpecAttractions: get_tourist_attractions alone, as test_apis.py calls   *)
(* it, answered with every short element list (names that repeat, differ   *)
(* in case only or come from name:en, elements without tourism tag, name   *)
(* or tags) and called with every small limit.                             *)
(***************************************************************************)
ListedElements == Elements \cup {Element("attraction", "lalbagh", "")}

ListedAnswers ==
    {[kind |-> "ok", elements |-> es] :
        es \in UNION {[1..n -> ListedElements] : n \in 0..MaxListed}}
        \cup {[kind |-> "timeout"]}

\* OverpassClient.get_tourist_attractions(lat, lon, limit) called on its own.
AttractionsOnly(p, limit) ==
    /\ pc = "idle"
    /\ entry' = "attractions_only"
    /\ places_answer' = p
    /\ places_limit' = limit
    /\ attractions' = Some(GetTouristAttractions(p, limit))
    /\ calls' = Append(calls, Call("get_tourist_attractions",
                                  GetTouristAttractions(p, limit) # <<>>))
    /\ outcome' = "listed"
    /\ pc' = "done"
    /\ UNCHANGED llm_answer
    /\ UNCHANGED <<has_openai, user_input, place_name, get_weather, get_places, verified,
                   weather_info, places_info, weather_data, response_parts, response,
                   weather_answer, ctx>>

NextAttractions ==
    \/ /\ pc = "idle"
       /\ \E p \in ListedAnswers, limit \in 0..MaxLimit : AttractionsOnly(p, limit)
    \/ NextQuery

SpecAttractions == Init /\ [][NextAttractions]_vars

(***************************************************************************)
(* The claims about the verifier, checked under SpecVerify.                *)
(***************************************************************************)
\* The geocoder returned a match to the verify_place_exists call of the state.
Matched == verified.called /\ verified.geo.kind = "ok"

\* a occurs in b as a contiguous run.
IsSubstring(a, b) ==
    \E i \in 0..Len(b), j \in 0..Len(b) : i <= j /\ SubSeq(b, i + 1, j) = a

\* The whitespace-delimited tokens of q: its maximal runs without a blank.
Tokens(q) ==
    { SubSeq(q, b[1], b[2]) :
        b \in { c \in (1..Len(q)) \X (1..Len(q)) :
                  /\ c[1] <= c[2]
                  /\ \A k \in c[1]..c[2] : q[k] # " "
                  /\ (c[1] = 1 \/ q[c[1] - 1] = " ")
                  /\ (c[2] = Len(q) \/ q[c[2] + 1] = " ") } }

\* The name the geocoder resolved to; the typed name when it gave none.
ResolvedName == IF verified.geo.hasName THEN verified.geo.name ELSE place_name

NormalQuery == StrStrip(StrLower(place_name))

NormalName == StrLower(ResolvedName)

TierHigh == NormalName = NormalQuery \/ IsSubstring(NormalQuery, NormalName)

TierMedium == \E t \in Tokens(NormalQuery) : IsSubstring(t, NormalName)

C3_MatchConfidenceTiers ==
    Matched =>
        /\ verified.details.some
        /\ verified.details.val.match_confidence \in {"high", "medium", "low"}
        /\ verified.details.val.match_confidence = "high" <=> TierHigh
        /\ verified.details.val.match_confidence = "medium" <=> (~TierHigh /\ TierMedium)
        /\ verified.details.val.match_confidence = "low" <=> (~TierHigh /\ ~TierMedium)

\* A medium match that rests on lower-casing: a query of two tokens, one of
\* which occurs in the resolved name only once both are lower-cased.
C3_Witness ==
    /\ Matched
    /\ verified.details.val.match_confidence = "medium"
    /\ place_name = <<"a", " ", "B">>
    /\ ResolvedName = <<"B">>

\* C4: with strict=False, verify_place_exists returns exists=True with the
\* record for every geocoder match, whatever the importance, the feature type
\* and the match_confidence.
C4_NonStrictAcceptsEveryMatch ==
    (Matched /\ ~verified.strict) =>
        /\ verified.exists
        /\ verified.details.some

\* A non-strict call accepting a low-confidence hamlet of importance 0.29.
C4_Witness ==
    /\ Matched
    /\ ~verified.strict
    /\ verified.exists
    /\ verified.details.val.match_confidence = "low"
    /\ verified.details.val.importance = 29
    /\ verified.details.val.type = Hamlet

\* C5: when the geocoder yields no match (an empty list, a timeout, an HTTP
\* error, an answer whose parsing raises), verify_place_exists returns, for
\* either value of strict, exists=False with no record and the one not-found
\* message, so the causes cannot be told apart.
C5_NoMatchIsNotFound ==
    (verified.called /\ verified.geo.kind # "ok") =>
        /\ pc = "done"
        /\ ~verified.exists
        /\ verified.details = [some |-> FALSE]
        /\ verified.message = <<"I don't know this place exists.">>

\* A non-strict call whose geocoder request timed out.
C5_Witness ==
    /\ verified.called
    /\ ~verified.strict
    /\ verified.geo.kind = "timeout"
    /\ pc = "done"
    /\ ~verified.exists

(***************************************************************************)
(* The claims about the two orchestrators, checked under Spec.             *)
(***************************************************************************)
ProviderCalls == {"get_weather", "get_tourist_attractions"}

\* Call i of the query comes after a verify_place_exists that returned
\* exists=True.
VerifiedBefore(i) ==
    \E j \in 1..(i - 1) : calls[j] = [op |-> "verify_place_exists", ok |-> TRUE]

\* C1, as claimed: on every entry point, the direct call of the structured
\* process_query included, no provider call is made unless
\* verify_place_exists returned exists=True earlier in the query.
C1_AsClaimed ==
    \A i \in DOMAIN calls : calls[i].op \in ProviderCalls => VerifiedBefore(i)

\* C1, amended: on the free-text path, the /api/query offline branch and the
\* CLI loop no provider call is made unless verify_place_exists returned
\* exists=True earlier in the query; a direct call of the structured
\* process_query verifies nothing, and there a provider call only follows a
\* get_coordinates call of its getter that resolved the name.
C1_GatedEntryPointsVerifyFirst ==
    /\ entry \in {"api", "cli", "freetext"} =>
           \A i \in DOMAIN calls : calls[i].op \in ProviderCalls => VerifiedBefore(i)
    /\ entry = "direct" =>
           \A i \in DOMAIN calls :
               /\ calls[i].op # "verify_place_exists"
               /\ calls[i].op \in ProviderCalls =>
                      (i > 1 /\ calls[i - 1] = [op |-> "get_coordinates", ok |-> TRUE])

\* A query of the /api/query offline branch that has called both providers.
C1_Witness ==
    /\ entry = "api"
    /\ \E i \in DOMAIN calls : calls[i].op = "get_weather"
    /\ \E i \in DOMAIN calls : calls[i].op = "get_tourist_attractions"
    /\ calls[1] = [op |-> "verify_place_exists", ok |-> TRUE]

\* A query has been answered by process_query.
Answered == pc = "done" /\ outcome = "answered"

\* The Weather sentence for the place of the query and the provider's data.
ExpectedWeatherSentence ==
    <<"In ">> \o place_name
        \o <<" it's currently ", weather_data.val.temperature, weather_data.val.unit,
             " with a chance of ", weather_data.val.precipitation_probability,
             "% to rain.">>

\* The lead-in line of the Places rendering.
ExpectedLeadIn ==
    <<"In ">> \o place_name \o <<" these are the places you can go, - - - - -">>

\* The lines after the lead-in: one per attraction, newline-separated, or the
\* one line saying that none was found.
RECURSIVE NameLines(_)
NameLines(list) ==
    IF Len(list) = 1
    THEN <<list[1].name>>
    ELSE <<list[1].name, "\n">> \o NameLines(Tail(list))

ExpectedAttractionLines ==
    IF attractions.val = <<>>
    THEN <<"(No tourist attractions found in the database)">>
    ELSE NameLines(attractions.val)

WeatherSucceeded == get_weather /\ weather_data.some

PlacesSucceeded == get_places /\ attractions.some

\* The places provider answered with at least one attraction.
PlacesListed == PlacesSucceeded /\ attractions.val # <<>>

\* C6: when both facets are requested and both succeed, the response is the
\* Weather sentence, one space, "And these are the places you can go: - - - -
\* -", a newline and the attraction lines; the Places lead-in occurs nowhere
\* in it.  In both orchestrators.
C6_BothSucceedMerge ==
    (Answered /\ WeatherSucceeded /\ PlacesSucceeded) =>
        /\ weather_info.val = ExpectedWeatherSentence
        /\ response = ExpectedWeatherSentence
                          \o <<" ", "And these are the places you can go: - - - - -", "\n">>
                          \o ExpectedAttractionLines
        /\ ~IsSubstring(ExpectedLeadIn, response)

\* The free-text orchestrator answering with the weather and two attractions.
C6_Witness ==
    /\ Answered
    /\ entry = "freetext"
    /\ WeatherSucceeded
    /\ PlacesSucceeded
    /\ Len(attractions.val) = 2

\* The Places rendering in full, lead-in first.
ExpectedPlacesRendering == ExpectedLeadIn \o <<"\n">> \o ExpectedAttractionLines

\* C7, as claimed: when exactly one requested facet succeeds, its piece is
\* its normal rendering unmodified; when Weather fails and Places succeeds
\* (here: the provider lists at least one attraction), the Places piece is
\* the full rendering, lead-in first, and not the connective prefix.
C7_AsClaimed ==
    /\ (Answered /\ WeatherSucceeded /\ ~PlacesSucceeded) =>
           response_parts[1] = ExpectedWeatherSentence
    /\ (Answered /\ PlacesListed /\ ~WeatherSucceeded) =>
           /\ response_parts[Len(response_parts)] = ExpectedPlacesRendering
           /\ response_parts[Len(response_parts)][1] #
                  "And these are the places you can go: - - - - -"

\* C8, as claimed for the Weather facet: when Weather was requested and
\* yielded no data, the first piece of the response is "Could not retrieve
\* weather information for {place}.", in both orchestrators, and a
\* Weather-only query answers exactly that sentence.
C8_AsClaimed ==
    (Answered /\ get_weather /\ ~WeatherSucceeded) =>
        /\ response_parts # <<>>
        /\ response_parts[1] =
               <<"Could not retrieve weather information for ">> \o place_name \o <<".">>
        /\ ~get_places =>
               response =
                   <<"Could not retrieve weather information for ">> \o place_name \o <<".">>

\* C9, as claimed: when both facets are requested and both fail, the response
\* is one generic failure sentence naming the place.
C9_AsClaimed ==
    (Answered /\ get_weather /\ get_places /\ ~WeatherSucceeded /\ ~PlacesSucceeded) =>
        response \in
            { <<"Could not retrieve information for ">> \o place_name
                  \o <<". Please try again.">>,
              <<"I found ">> \o place_name
                  \o <<", but couldn't retrieve information. Please try again.">> }

\* The number of facets the query requested.
Requested == (IF get_weather THEN 1 ELSE 0) + (IF get_places THEN 1 ELSE 0)

\* C10, as claimed: every requested facet contributes exactly one piece, the
\* Weather piece first, and the response is the pieces joined by one space.
C10_AsClaimed ==
    (Answered /\ Requested > 0) =>
        /\ Len(response_parts) = Requested
        /\ response = Join(<<" ">>, response_parts)

(***************************************************************************)
(* Failures of the providers.                                              *)
(***************************************************************************)
\* The weather provider was called and gave no data: the request timed out
\* or raised, or the answer had no "current" block.
WeatherProviderFailed == weather_answer.kind \notin {"none", "ok"}

\* The places provider was called and gave no attraction: the request timed
\* out or raised, or it listed nothing usable.
PlacesProviderFailed == places_answer.kind # "none" /\ attractions = [some |-> TRUE, val |-> <<>>]

\* The calls the query has made to op.
CallsTo(op) == {i \in DOMAIN calls : calls[i].op = op}

\* C11: when both facets are requested and the query is answered, a weather
\* provider that failed (timeout, exception, no data) has not kept the Places
\* getter from running: it geocoded the place after the weather call, called
\* the places provider when that geocoding resolved, and the attraction lines
\* it got are in the response; a places provider that failed or listed
\* nothing has not removed the Weather sentence of a weather provider that
\* succeeded; and whatever the two providers answered, process_query returned
\* a non-empty text.
C11_FacetFailuresAreIndependent ==
    /\ (Answered /\ get_weather /\ get_places /\ WeatherProviderFailed) =>
           /\ \E i \in CallsTo("get_weather") :
                  \E j \in CallsTo("get_coordinates") :
                      /\ j > i
                      /\ calls[j].ok <=> CallsTo("get_tourist_attractions") = {j + 1}
           /\ attractions.some => IsSubstring(ExpectedAttractionLines, response)
    /\ (Answered /\ get_weather /\ get_places /\ PlacesProviderFailed) =>
           /\ weather_answer.kind = "ok" =>
                  /\ WeatherSucceeded
                  /\ IsSubstring(ExpectedWeatherSentence, response)
    /\ (pc = "done" /\ entry \in {"direct", "api", "cli", "freetext"}
            /\ (weather_answer.kind # "none" \/ places_answer.kind # "none")) =>
           /\ outcome = "answered"
           /\ response # <<>>

\* The free-text orchestrator answering with two attractions after its weather
\* request timed out.
C11_Witness ==
    /\ Answered
    /\ entry = "freetext"
    /\ get_weather
    /\ get_places
    /\ weather_answer.kind = "timeout"
    /\ places_answer.kind = "ok"
    /\ attractions.some
    /\ Len(attractions.val) = 2

\* The provider's request timed out or raised.
WeatherCallRaised == weather_answer.kind \in {"timeout", "http_error", "malformed"}

PlacesCallRaised == places_answer.kind \in {"timeout", "http_error", "malformed"}

\* C12, as claimed, for the structured orchestrator: a weather request that
\* timed out or raised gives the Weather failure sentence, and a places request
\* that timed out or raised gives a "Could not retrieve ..." piece for Places,
\* so that the response does not read like that of a provider which answered
\* with zero attractions.
C12_AsClaimed ==
    /\ (Answered /\ entry \in Structured /\ get_weather /\ WeatherCallRaised) =>
           response_parts[1] =
               <<"Could not retrieve weather information for ">> \o place_name \o <<".">>
    /\ (Answered /\ entry \in Structured /\ get_places /\ PlacesCallRaised) =>
           /\ response_parts[Len(response_parts)][1] \in
                  { "Could not retrieve tourist attractions for ",
                    "Could not retrieve places information for " }
           /\ ~IsSubstring(<<"(No tourist attractions found in the database)">>, response)

\* C13: when Places is the only facet requested, the place resolves and the
\* places provider returns an empty list, the response is exactly "In {place}
\* these are the places you can go, - - - - -", a newline and "(No tourist
\* attractions found in the database)".  In both orchestrators.
C13_EmptyPlacesRendering ==
    (Answered /\ ~get_weather /\ get_places /\ attractions = [some |-> TRUE, val |-> <<>>]) =>
        response =
            <<"In ">> \o place_name
                \o <<" these are the places you can go, - - - - -", "\n",
                     "(No tourist attractions found in the database)">>

\* The free-text orchestrator answering a Places-only query for which
\* Overpass answered with no element.
C13_Witness ==
    /\ Answered
    /\ entry = "freetext"
    /\ ~get_weather
    /\ get_places
    /\ places_answer = [kind |-> "ok", elements |-> <<>>]
    /\ attractions = [some |-> TRUE, val |-> <<>>]

(***************************************************************************)
(* The claims about determine_intent, checked under SpecIntent and Spec.   *)
(***************************************************************************)
\* Some weather keyword occurs in the lower-cased text of the query.
WeatherKeywordFound ==
    \E i \in DOMAIN WeatherKeywords : IsSubstring(WeatherKeywords[i], StrLower(user_input))

\* Some places keyword occurs in the lower-cased text of the query.
PlacesKeywordFound ==
    \E i \in DOMAIN PlacesKeywords : IsSubstring(PlacesKeywords[i], StrLower(user_input))

\* C14: determine_intent sets Weather iff the lower-cased text contains a
\* weather keyword, and Places iff it contains a places keyword or contains no
\* keyword of either list; so the facet set is never empty, and it is Places
\* alone exactly when no weather keyword occurs.
C14_IntentByKeywords ==
    (pc = "done" /\ entry = "intent_only") =>
        /\ get_weather <=> WeatherKeywordFound
        /\ get_places <=> (PlacesKeywordFound \/ (~WeatherKeywordFound /\ ~PlacesKeywordFound))
        /\ get_weather \/ get_places
        /\ (get_places /\ ~get_weather) <=> ~WeatherKeywordFound

\* A text without any keyword, classified as Places alone by the default.
C14_Witness ==
    /\ pc = "done"
    /\ entry = "intent_only"
    /\ user_input = <<"x", " ">>
    /\ get_places
    /\ ~get_weather

\* C15, as claimed: the free-text query "I'm going to go to Bangalore, what is
\* the temperature there" is classified as Weather without Places, so that its
\* answer is the weather sentence alone when the weather is retrieved; and
\* "I'm going to go to Bangalore, let's plan my trip." is classified as Places
\* without Weather.
C15_AsClaimed ==
    /\ (Answered /\ entry = "freetext" /\ user_input = TemperatureText) =>
           /\ get_weather
           /\ ~get_places
           /\ WeatherSucceeded => response = ExpectedWeatherSentence
    /\ (Answered /\ entry = "freetext" /\ user_input = PlanTripText) =>
           /\ get_places
           /\ ~get_weather

(***************************************************************************)
(* The claim about get_tourist_attractions, checked under SpecAttractions. *)
(***************************************************************************)
\* The name an element carries: name, else name:en, else name:en-GB.
CarriedName(e) ==
    IF e.name # "" THEN e.name ELSE IF e.name_en # "" THEN e.name_en ELSE e.name_en_gb

\* The element carries a tourism tag and a name.
Qualifies(e) == e.tourism # "" /\ CarriedName(e) # ""

\* The positions, in the provider's list, of the elements that qualify and
\* whose name no earlier qualifying element carries.
FirstOccurrences ==
    {i \in DOMAIN places_answer.elements :
        /\ Qualifies(places_answer.elements[i])
        /\ \A j \in 1..(i - 1) :
               ~(/\ Qualifies(places_answer.elements[j])
                 /\ CarriedName(places_answer.elements[j])
                        = CarriedName(places_answer.elements[i]))}

\* The place of position i among the first occurrences, in provider order.
Rank(i) == Cardinality({j \in FirstOccurrences : j < i}) + 1

\* C16: for every element list and every limit >= 0, the list returned by
\* get_tourist_attractions has no two entries of the same name (compared
\* case-sensitively), has at most limit entries, and is exactly the first
\* limit distinct names, in provider order, of the elements that carry a
\* tourism tag and a name.
C16_FirstDistinctNames ==
    (pc = "done" /\ entry = "attractions_only" /\ places_answer.kind = "ok") =>
        LET listed == attractions.val
        IN  /\ Len(listed) <= places_limit
            /\ \A a \in DOMAIN listed, b \in DOMAIN listed :
                   a # b => listed[a].name # listed[b].name
            /\ Len(listed) = IF Cardinality(FirstOccurrences) < places_limit
                             THEN Cardinality(FirstOccurrences)
                             ELSE places_limit
            /\ \A i \in FirstOccurrences :
                   Rank(i) <= places_limit =>
                       listed[Rank(i)].name = CarriedName(places_answer.elements[i])

\* A call with limit 2 answered with "Lalbagh", an element whose name:en
\* repeats it, and "Cubbon Park": the repetition is dropped and the limit is
\* reached with the third element.
C16_Witness ==
    /\ pc = "done"
    /\ entry = "attractions_only"
    /\ places_limit = 2
    /\ places_answer.kind = "ok"
    /\ Len(places_answer.elements) = 3
    /\ places_answer.elements[2].name_en = "Lalbagh"
    /\ attractions.val = << [name |-> "Lalbagh", type |-> "attraction"],
                            [name |-> "Cubbon Park", type |-> "museum"] >>

(***************************************************************************)
(* The order and the number of the calls of one query, checked under Spec. *)
(***************************************************************************)
GeocoderCalls == {"get_coordinates", "verify_place_exists"}

\* C17: in the calls of one query, which are made one after the other, every
\* call of the weather or places provider comes after a geocoder call of that
\* query, which has returned (with a match or without) before the provider
\* call starts; inside process_query it is the getter's own get_coordinates
\* call, which resolved the place, that comes right before it.
C17_GeocodeBeforeProviders ==
    \A i \in DOMAIN calls :
        calls[i].op \in ProviderCalls =>
            /\ \E j \in 1..(i - 1) : calls[j].op \in GeocoderCalls
            /\ entry \in {"direct", "api", "cli", "freetext"} =>
                   calls[i - 1] = [op |-> "get_coordinates", ok |-> TRUE]

\* The structured orchestrator, called directly, has called both providers,
\* each right after a get_coordinates call.
C17_Witness ==
    /\ Answered
    /\ entry = "direct"
    /\ Len(calls) = 4
    /\ calls[2].op = "get_weather"
    /\ calls[4].op = "get_tourist_attractions"

\* C18: within one query the weather provider is called at most once and the
\* places provider at most once; a call that gave nothing is not repeated
\* and the facet has nothing at the end of the query.
C18_OneCallPerFacet ==
    /\ Cardinality(CallsTo("get_weather")) <= 1
    /\ Cardinality(CallsTo("get_tourist_attractions")) <= 1
    /\ (pc = "done" /\ \E i \in CallsTo("get_weather") : ~calls[i].ok) =>
           /\ weather_data = [some |-> FALSE]
           /\ weather_info = [some |-> FALSE]
    /\ (pc = "done" /\ \E i \in CallsTo("get_tourist_attractions") : ~calls[i].ok) =>
           attractions = [some |-> TRUE, val |-> <<>>]

\* The free-text orchestrator has answered a query for both facets whose two
\* provider calls both gave nothing, each made once.
C18_Witness ==
    /\ Answered
    /\ entry = "freetext"
    /\ calls[Len(calls)] = [op |-> "get_tourist_attractions", ok |-> FALSE]
    /\ \E i \in DOMAIN calls : calls[i] = [op |-> "get_weather", ok |-> FALSE]
    /\ places_answer.kind = "timeout"

(***************************************************************************)
(* The claim about concurrent requests, checked under SpecConcurrent.      *)
(***************************************************************************)
\* What process_query returns to a request handled alone, given what the two
\* getters returned to it.
SoloParts(c) ==
    LET first == IF c.get_weather
                 THEN OfflineAppendWeather(<<>>, c.place_name, c.got_weather)
                 ELSE <<>>
    IN  IF c.get_places
        THEN OfflineAppendPlaces(first, c.place_name, c.get_weather, c.got_places)
        ELSE first

SoloResponse(c) ==
    IF c.mode = "offline"
    THEN OfflineRespond(SoloParts(c), c.place_name)
    ELSE AgentRespond(AgentParts(c.got_weather, c.got_places), c.place_name)

\* C20: under every interleaving of the steps of two requests served through
\* the shared offline_system and online_system, each request that
\* process_query has answered holds the response it would have got alone from
\* the same getter results, and names no place but its own.
C20_ConcurrentQueriesDoNotInterfere ==
    \A r \in Requests :
        (ctx[r].pc = "done" /\ ctx[r].outcome = "answered") =>
            /\ ctx[r].response = SoloResponse(ctx[r])
            /\ \A o \in Requests \ {r} :
                   ctx[o].place_name \notin {<<>>, ctx[r].place_name} =>
                       ~IsSubstring(ctx[o].place_name, ctx[r].response)

\* Two answered requests for both facets, an offline one for Smallville that
\* started while an offline one for Bangalore was being handled.
C20_Witness ==
    /\ ctx[1].pc = "done"
    /\ ctx[1].outcome = "answered"
    /\ ctx[1].mode = "offline"
    /\ Len(ctx[1].response_parts) = 2
    /\ ctx[2].pc = "done"
    /\ ctx[2].outcome = "answered"
    /\ ctx[2].mode = "offline"
    /\ ctx[2].overlapped
    /\ Len(ctx[2].response_parts) = 2
    /\ Truthy(ctx[2].got_weather)

(***************************************************************************)
(* What follows a failed verification, checked under Spec.                 *)
(***************************************************************************)
\* C22: whenever verify_place_exists returns exists=False (no match, a minor
\* place of low importance, a low-confidence match) its message is the one
\* string "I don't know this place exists.", which names no candidate; and
\* the default message of generate_error_response, which /api/query answers
\* with when no AI reply is available, is that same string.
C22_OneNotFoundMessage ==
    /\ (verified.called /\ ~verified.exists) =>
           /\ verified.message = <<"I don't know this place exists.">>
           /\ verified.details.some =>
                  /\ ~IsSubstring(verified.details.val.display_name, verified.message)
                  /\ ~IsSubstring(verified.details.val.name, verified.message)
    /\ (entry = "api" /\ outcome = "not_found" /\ ~has_openai) =>
           response = <<"I don't know this place exists.">>

\* A strict call that rejected an important city for its low match
\* confidence, answered with the not-found message.
C22_Witness ==
    /\ verified.called
    /\ verified.strict
    /\ ~verified.exists
    /\ verified.details.some
    /\ verified.details.val.match_confidence = "low"
    /\ verified.details.val.importance = 90
    /\ verified.message = NotExistsMessage

\* C23: when the strict verification of a query returns exists=False, the
\* free-text path, the /api/query offline branch and the CLI loop end the
\* query there: it has made one geocoder call, the verification, and no
\* get_coordinates, weather or places call, and the free-text path has not
\* classified the intent.
C23_RejectionEndsQuery ==
    (entry \in {"api", "cli", "freetext"} /\ verified.called /\ ~verified.exists) =>
        /\ pc = "done"
        /\ outcome = "not_found"
        /\ Cardinality(CallsTo("verify_place_exists")) = 1
        /\ \A i \in DOMAIN calls :
               calls[i].op \notin
                   {"get_coordinates", "get_weather", "get_tourist_attractions",
                    "determine_intent"}
        /\ entry = "freetext" => (~get_weather /\ ~get_places)
        /\ weather_answer.kind = "none"
        /\ places_answer.kind = "none"

\* The CLI loop back at its prompt after the verifier rejected a candidate.
C23_Witness ==
    /\ entry = "cli"
    /\ pc = "done"
    /\ verified.called
    /\ ~verified.exists
    /\ verified.details.some
    /\ calls = <<[op |-> "verify_place_exists", ok |-> FALSE]>>

(***************************************************************************)
(* A getter whose own get_coordinates call resolved nothing.               *)
(***************************************************************************)
\* The getters' get_coordinates calls of the query, in the order made.
GetterGeocodes == CallsTo("get_coordinates")

\* process_query is past the Weather block, which ran get_weather_info.
WeatherGetterRan ==
    /\ entry \in {"direct", "api", "cli", "freetext"}
    /\ get_weather
    /\ pc \in {"places", "respond"} \/ (pc = "done" /\ outcome = "answered")

\* process_query is past the Places block, which ran get_places_info.
PlacesGetterRan ==
    /\ entry \in {"direct", "api", "cli", "freetext"}
    /\ get_places
    /\ pc = "respond" \/ (pc = "done" /\ outcome = "answered")

\* The Weather getter's call is the first of the query's get_coordinates calls.
WeatherGeocodeFailed ==
    /\ WeatherGetterRan
    /\ \E i \in GetterGeocodes :
           (\A j \in GetterGeocodes : i <= j) /\ ~calls[i].ok

\* The Places getter's call is the last of them.
PlacesGeocodeFailed ==
    /\ PlacesGetterRan
    /\ \E i \in GetterGeocodes :
           (\A j \in GetterGeocodes : j <= i) /\ ~calls[i].ok

\* C24: each facet getter that has run has made a get_coordinates call of its
\* own, and when that call resolved nothing (an unknown name, or a failure
\* after a successful verification) the getter has not called its provider
\* and has returned None, and the structured process_query has put the
\* facet's "Could not retrieve ..." sentence in the response parts, and in
\* the response it returns.
C24_UnresolvedGetterGivesFailureSentence ==
    /\ (WeatherGetterRan /\ PlacesGetterRan) => Cardinality(GetterGeocodes) = 2
    /\ (WeatherGetterRan \/ PlacesGetterRan) => Cardinality(GetterGeocodes) >= 1
    /\ WeatherGeocodeFailed =>
           /\ CallsTo("get_weather") = {}
           /\ weather_info = [some |-> FALSE]
           /\ entry \in Structured =>
                  /\ response_parts # <<>>
                  /\ response_parts[1] =
                         <<"Could not retrieve weather information for ">>
                             \o place_name \o <<".">>
                  /\ pc = "done" =>
                         IsSubstring(<<"Could not retrieve weather information for ">>
                                         \o place_name \o <<".">>, response)
    /\ PlacesGeocodeFailed =>
           /\ CallsTo("get_tourist_attractions") = {}
           /\ places_info = [some |-> FALSE]
           /\ entry \in Structured =>
                  /\ response_parts # <<>>
                  /\ response_parts[Len(response_parts)] =
                         <<"Could not retrieve tourist attractions for ">>
                             \o place_name \o <<".">>
                  /\ pc = "done" =>
                         IsSubstring(<<"Could not retrieve tourist attractions for ">>
                                         \o place_name \o <<".">>, response)

\* The structured orchestrator called directly with a name the geocoder does
\* not know, attractions only.
C24_Witness ==
    /\ entry = "direct"
    /\ pc = "done"
    /\ place_name = XyzAbc123
    /\ ~get_weather
    /\ get_places
    /\ calls = <<[op |-> "get_coordinates", ok |-> FALSE]>>
    /\ response = <<"Could not retrieve tourist attractions for ">>
                      \o XyzAbc123 \o <<".">>

(***************************************************************************)
(* The free-text path when extraction yields no candidate.                 *)
(***************************************************************************)
\* The completions that carry no candidate: the call raised, or the content
\* is NONE in some case, empty, or blank.
NoCandidateAnswers ==
    {[kind |-> "error"],
     [kind |-> "ok", content |-> <<"N", "O", "N", "E">>],
     [kind |-> "ok", content |-> <<"N", "o", "n", "e">>],
     [kind |-> "ok", content |-> <<>>],
     [kind |-> "ok", content |-> <<" ">>]}

\* C25: on the free-text path, when the extraction yields no candidate (the
\* model answered NONE in any case, answered nothing, or the call raised),
\* the query ends with the could-not-identify message, which is neither the
\* verifier's not-found message nor the agent's not-found fallback, and it
\* has made no geocoder and no provider call; the query ends that way for no
\* other completion.
C25_NoCandidateMessage ==
    /\ (entry = "freetext" /\ llm_answer \in NoCandidateAnswers) =>
           /\ pc = "done"
           /\ outcome = "no_place"
           /\ response =
                  <<"I couldn't identify a place name in your message. Please specify a location.">>
           /\ response # <<"I don't know this place exists.">>
           /\ response # AgentFallback
           /\ ~verified.called
           /\ calls = <<[op |-> "extract_place_name", ok |-> FALSE]>>
    /\ outcome = "no_place" => (entry = "freetext" /\ llm_answer \in NoCandidateAnswers)

\* The model answered "None" in mixed case.
C25_Witness ==
    /\ entry = "freetext"
    /\ pc = "done"
    /\ llm_answer = [kind |-> "ok", content |-> <<"N", "o", "n", "e">>]
    /\ outcome = "no_place"
    /\ response = CouldNotIdentify

(***************************************************************************)
(* The two orchestrators on the same place, facets and provider answers.   *)
(***************************************************************************)
\* A geocoder answer that resolves the place.
ResolvedGeo == CHOOSE gc \in CoordAnswers : GetCoordinates(gc).some

\* What TourismSystemOffline.process_query returns for the place and flags
\* when the geocoder resolves the place and the providers answer w and p.
OfflineResponseFor(name, weather_flag, places_flag, w, p) ==
    LET after_weather ==
            IF weather_flag
            THEN OfflineAppendWeather(<<>>, name,
                     OfflineGetWeatherInfo(name, ResolvedGeo, w).info)
            ELSE <<>>
        after_places ==
            IF places_flag
            THEN OfflineAppendPlaces(after_weather, name, weather_flag,
                     OfflineGetPlacesInfo(name, ResolvedGeo, p, DefaultLimit).info)
            ELSE after_weather
    IN  OfflineRespond(after_places, name)

\* What the merge step of TourismAIAgent.process_query returns for the same.
AgentResponseFor(name, weather_flag, places_flag, w, p) ==
    LET weather == IF weather_flag
                   THEN AgentGetWeatherInfo(name, ResolvedGeo, w).info
                   ELSE None
        places == IF places_flag
                  THEN AgentGetPlacesInfo(name, ResolvedGeo, p, DefaultLimit).info
                  ELSE None
    IN  AgentRespond(AgentParts(weather, places), name)

\* Every facet the query asked for gave its text.
RequestedFacetsSucceeded ==
    /\ get_weather => weather_info.some
    /\ get_places => places_info.some

\* C26: for the same place, the same facets (at least one, as the free-text
\* path always asks for one) and the same provider answers, when every
\* requested facet succeeded, the response the structured orchestrator
\* returned is the one the free-text merge step returns, and the response of
\* the free-text merge step is the one the structured orchestrator returns,
\* element for element.
C26_OrchestratorsAgree ==
    /\ (Answered /\ entry \in Structured /\ (get_weather \/ get_places)
            /\ RequestedFacetsSucceeded) =>
           response = AgentResponseFor(place_name, get_weather, get_places,
                                       weather_answer, places_answer)
    /\ (Answered /\ entry = "freetext" /\ RequestedFacetsSucceeded) =>
           response = OfflineResponseFor(place_name, get_weather, get_places,
                                         weather_answer, places_answer)

\* The structured orchestrator has answered with both facets, the Places
\* piece after the Weather sentence.
C26_Witness ==
    /\ Answered
    /\ entry = "direct"
    /\ get_weather
    /\ get_places
    /\ weather_info.some
    /\ places_info.some
    /\ attractions.some
    /\ attractions.val # <<>>
    /\ Len(response_parts) = 2

(***************************************************************************)
(* Strict against non-strict verification, checked under SpecVerify.       *)
(***************************************************************************)
\* C27: what a strict call accepted, a non-strict call with the same name
\* and the same geocoder answer accepts too, with the same record and the
\* same message, and what a non-strict call rejected a strict call rejects;
\* in both modes and whatever the decision, the record returned with a match
\* is the one get_place_details built from the geocoder's candidate, with
\* the candidate's name, display name, type and importance as given.
C27_StrictAtLeastAsRestrictive ==
    (entry = "verify_only" /\ verified.called) =>
        LET g == verified.geo
            lenient == VerifyPlaceExists(place_name, FALSE, g)
            strictly == VerifyPlaceExists(place_name, TRUE, g)
        IN  /\ (verified.strict /\ verified.exists) =>
                   /\ lenient.exists
                   /\ lenient.details = verified.details
                   /\ lenient.message = verified.message
            /\ (~verified.strict /\ ~verified.exists) => ~strictly.exists
            /\ verified.details.some <=> g.kind = "ok"
            /\ verified.details.some =>
                   /\ g.hasName => verified.details.val.name = g.name
                   /\ g.hasDisplay => verified.details.val.display_name = g.display_name
                   /\ g.hasType => verified.details.val.type = g.type
                   /\ g.hasImportance => verified.details.val.importance = g.importance
                   /\ verified.details = GetPlaceDetails(place_name, g)

\* A strict call that accepted a hamlet at the importance threshold, whose
\* name the query matched.
C27_Witness ==
    /\ entry = "verify_only"
    /\ verified.called
    /\ verified.strict
    /\ verified.exists
    /\ verified.details.some
    /\ verified.details.val.type = Hamlet
    /\ verified.details.val.importance = 30
    /\ verified.details.val.match_confidence = "high"

(***************************************************************************)
(* The structured orchestrator asked for no facet.                         *)
(***************************************************************************)
\* C28: the structured process_query called with both flags false has made
\* no get_coordinates, weather or places call (the only call of the query is
\* the verification the /api/query handler made before it) and has returned
\* "Could not retrieve information for {place}. Please try again."; no query
\* that asked for a facet, and no other entry point, has that response.
C28_GenericOnlyWithoutFacets ==
    /\ (Answered /\ entry \in Structured /\ ~get_weather /\ ~get_places) =>
           /\ response = <<"Could not retrieve information for ">> \o place_name
                             \o <<". Please try again.">>
           /\ response_parts = <<>>
           /\ \A i \in DOMAIN calls :
                  calls[i].op \notin {"get_coordinates", "get_weather",
                                      "get_tourist_attractions"}
           /\ entry = "direct" => calls = <<>>
           /\ entry # "direct" => calls = <<[op |-> "verify_place_exists", ok |-> TRUE]>>
    /\ response = <<"Could not retrieve information for ">> \o place_name
                      \o <<". Please try again.">> =>
           /\ Answered
           /\ entry \in Structured
           /\ ~get_weather
           /\ ~get_places

\* /api/query posted with a place and neither flag, which both default to
\* false: the place was verified and process_query asked nothing.
C28_Witness ==
    /\ Answered
    /\ entry = "api"
    /\ place_name = Bangalore
    /\ ~get_weather
    /\ ~get_places
    /\ verified.exists
    /\ response = OfflineGeneric(Bangalore)

====
